---- MODULE Spec2Model ----
(***************************************************************************)
(* A model of the tree engine of grammarinator-cxx: the delta-debugging    *)
(* trimmers of libgrafl (ConfigTrimmer, ContentTrimmer), the AFL trim      *)
(* session built on them, the test memo of Tool, the tree operations, the  *)
(* creators of Tool, the custom mutators of the fuzzers and the contexts   *)
(* of the Generator.                                                       *)
(***************************************************************************)
EXTENDS Integers, Sequences, FiniteSets, TLC

VARIABLES
    trimmer,    \* ConfigTrimmer: config_, links_, subsets_, i_, next_config_, config_cache_
    phase,      \* position of the caller in the init / trim / post protocol
    ret,        \* value returned by the last init() or post()
    initial,    \* arguments of init(): the configuration and the links
    trimmed,    \* history: the configurations returned by trim(), in order
    answers,    \* history: the oracle's answers passed to post(), in order
    content,    \* ContentTrimmer: trimmer_, serializer_, next_config_, next_content_, content_cache_
    world,      \* what the serializer of the ContentTrimmer reads and writes
    recalled,   \* history: the configurations returned by recall() at each trim()
    inner,      \* value returned by the trimmer_.init() call inside ContentTrimmer::init
    memo,       \* Tool / GeneratorTool: memo_size, memo, memo_order
    calls,      \* history: the memoize_test calls, each with its input and its result
    tool,       \* Tool, the individuals and the create_tree call in progress
    created,    \* history: the last call of a creator by create_tree, with its result
    forest,     \* nodes under the operations of Rule and ParentRule, and the last operation
    fuzz,       \* a fuzzer's call of a custom mutator: its arguments, the tool's state, the result
    gen,        \* a Generator inside the function of a rule: limit, size and the open contexts
    population  \* a SubTreePopulation, the trees of its callers and the last call

trimVars == <<trimmer, phase, ret, initial, trimmed, answers>>

contentVars == <<content, world, recalled, inner>>

memoVars == <<memo, calls>>

toolVars == <<tool, created>>

restVars == <<forest, fuzz, gen, population>>

vars == <<trimVars, contentVars, memoVars, toolVars, restVars>>

\* the variables a ConfigTrimmer session leaves alone
outsideTrim == <<contentVars, memoVars, toolVars, restVars>>

\* the variables a ContentTrimmer session leaves alone
outsideContent == <<trimmer, memoVars, toolVars, restVars>>

\* the variables the memo leaves alone
outsideMemo == <<trimVars, contentVars, toolVars, restVars>>

\* the variables the mutators leave alone
outsideTool == <<trimVars, contentVars, memoVars, restVars>>

----------------------------------------------------------------------------
(* Bounds of the model *)

\* largest initial configuration handed to ConfigTrimmer::init
MaxUnits == 4
\* largest number of link edges (a -> b) handed to ConfigTrimmer::init
MaxLinks == 2
\* largest initial configuration handed to ContentTrimmer::init
MaxContentUnits == 3
\* largest number of link edges handed to ContentTrimmer::init
MaxContentLinks == 1

----------------------------------------------------------------------------
(* Helpers: the iteration order of std::set and std::map is ascending *)

\* F(x) with the argument evaluated once, before the call
ByValue(F(_), x) == CHOOSE r \in {F(v) : v \in {x}} : TRUE

Min(a, b) == IF a < b THEN a ELSE b

Max(a, b) == IF a > b THEN a ELSE b

Least(S) == CHOOSE x \in S : \A y \in S : x <= y

RECURSIVE SetToSeq(_)
SetToSeq(S) ==
    IF S = {} THEN <<>>
    ELSE CHOOSE s \in {<<m>> \o SetToSeq(rest) : m \in {Least(S)}, rest \in {S \ {Least(S)}}} : TRUE

Units == 1..MaxUnits

----------------------------------------------------------------------------
(* ConfigTrimmer (libgrafl/trimmer.hpp) *)

\* the result of the loop of split(): element c goes to subsets_[j]
RECURSIVE SplitLoop(_, _, _, _, _, _)
SplitLoop(elems, size, n, d, j, subs) ==
    IF elems = <<>> THEN subs
    ELSE LET subs1 == [subs EXCEPT ![j + 1] = @ \cup {Head(elems)}]
             d1 == d + n
         IN IF d1 >= size
            THEN SplitLoop(Tail(elems), size, n, d1 - size, j + 1, subs1)
            ELSE SplitLoop(Tail(elems), size, n, d1, j, subs1)

\* split() that doubles the number of subsets without the cap of size
split_Uncapped(t) ==
    LET size == Cardinality(t.config_)
        n == Len(t.subsets_) * 2
    IN [t EXCEPT !.subsets_ = SplitLoop(SetToSeq(t.config_), size, n, 0, 0, [k \in 1..n |-> {}]),
                 !.i_ = 0]

\* int split(): re-split config_ into min(size, 2 * |subsets_|) subsets, i_ = 0
split(t) ==
    ByValue(LAMBDA s :
              LET size == Cardinality(s.config_)
                  n == Min(size, Len(s.subsets_) * 2)
              IN [s EXCEPT !.subsets_ = SplitLoop(SetToSeq(s.config_), size, n, 0, 0,
                                                  [k \in 1..n |-> {}]),
                           !.i_ = 0],
            t)

\* unlink() that does not follow the links of the units it erases
RECURSIVE UnlinkLoop_OneLevel(_, _, _)
UnlinkLoop_OneLevel(links, worklist, cfg) ==
    IF worklist = <<>> THEN cfg
    ELSE LET e == worklist[Len(worklist)]
             rest == SubSeq(worklist, 1, Len(worklist) - 1)
         IN UnlinkLoop_OneLevel(links, rest, cfg \ links[e])

\* the worklist loop of unlink(): pop e, erase every unit linked to e, push
\* the erased ones that are keys of links_
RECURSIVE UnlinkLoop(_, _, _)
UnlinkLoop(links, worklist, cfg) ==
    IF worklist = <<>> THEN cfg
    ELSE LET e == worklist[Len(worklist)]
             rest == SubSeq(worklist, 1, Len(worklist) - 1)
             erased == links[e] \cap cfg
             pushed == SetToSeq(erased \cap DOMAIN links)
         IN CHOOSE r \in {UnlinkLoop(links, w, c) : w \in {rest \o pushed},
                                                   c \in {cfg \ erased}} : TRUE

\* void unlink(): remove from next_config_ the units linked to removed units
unlink(t) ==
    ByValue(LAMBDA s :
              LET worklist == SetToSeq({e \in DOMAIN s.links_ : e \notin s.next_config_})
              IN [s EXCEPT !.next_config_ = UnlinkLoop(s.links_, worklist, s.next_config_)],
            t)

\* the next configuration with the complements before the subsets
RawConfig_ComplementsFirst(t, n) ==
    IF t.i_ >= n THEN t.subsets_[t.i_ - n + 1]
    ELSE UNION {t.subsets_[k + 1] : k \in (0..(n - 1)) \ {t.i_}}

\* the next configuration before unlinking: subset i_ or the complement of subset i_ - n
RawConfig(t, n) ==
    IF t.i_ < n THEN t.subsets_[t.i_ + 1]
    ELSE UNION {t.subsets_[k + 1] : k \in (0..(n - 1)) \ {t.i_ - n}}

\* the while (true) loop of next()
RECURSIVE NextLoop(_, _)
NextLoop(t, n) ==
    IF t.i_ < 2 * n
    THEN ByValue(LAMBDA t2 : IF t2.next_config_ \notin t2.config_cache_
                             THEN [t |-> t2, found |-> TRUE]
                             ELSE NextLoop([t2 EXCEPT !.i_ = @ + 1], n),
                 unlink([t EXCEPT !.next_config_ = RawConfig(t, n)]))
    ELSE IF n < Cardinality(t.config_)
         THEN ByValue(LAMBDA t3 : NextLoop(t3, Len(t3.subsets_)), split(t))
         ELSE [t |-> t, found |-> FALSE]

\* next() that also gives up on configurations of two units
next_GiveUpOnPairs(t) ==
    IF Cardinality(t.config_) < 3 THEN [t |-> t, found |-> FALSE]
    ELSE LET t1 == IF Len(t.subsets_) < 2 THEN split(t) ELSE t
         IN NextLoop(t1, Len(t1.subsets_))

\* bool next(): compute the next configuration, if any
next(t) ==
    IF Cardinality(t.config_) < 2 THEN [t |-> t, found |-> FALSE]
    ELSE ByValue(LAMBDA t1 : NextLoop(t1, Len(t1.subsets_)),
                 IF Len(t.subsets_) < 2 THEN split(t) ELSE t)

\* int init(config, links): the state before the first next()
InitState(t, config, links) ==
    [t EXCEPT !.config_ = config, !.subsets_ = <<config>>, !.links_ = links,
              !.config_cache_ = {}]

\* post(true) that forgets to adopt the successful configuration
PostSuccess_KeepConfig(t) ==
    LET size == Cardinality(t.next_config_)
    IN [t EXCEPT !.config_cache_ = {c \in @ : ~(Cardinality(c) >= size)},
                 !.subsets_ = <<t.config_>>]

\* post(true) that keeps the cache entries as large as the successful
\* configuration
PostSuccess_KeepEqual(t) ==
    LET size == Cardinality(t.next_config_)
    IN [t EXCEPT !.config_cache_ = {c \in @ : ~(Cardinality(c) > size)},
                 !.config_ = t.next_config_,
                 !.subsets_ = <<t.next_config_>>]

\* post(true): evict the cache entries not smaller than the successful
\* configuration, make it the configuration to reduce, clear the splitting
PostSuccess(t) ==
    LET size == Cardinality(t.next_config_)
    IN [t EXCEPT !.config_cache_ = {c \in @ : ~(Cardinality(c) >= size)},
                 !.config_ = t.next_config_,
                 !.subsets_ = <<t.next_config_>>]

\* post(false) that does not cache the unsuccessful configuration
PostFailure_NoCache(t) == [t EXCEPT !.i_ = @ + 1]

\* post(false) that moves the cursor by two
PostFailure_SkipOne(t) ==
    [t EXCEPT !.config_cache_ = @ \cup {t.next_config_}, !.i_ = @ + 2]

\* post(false): cache the unsuccessful configuration, ++i_
PostFailure(t) ==
    [t EXCEPT !.config_cache_ = @ \cup {t.next_config_}, !.i_ = @ + 1]

\* int post(bool success), up to the call of next()
PostState(t, success) == IF success THEN PostSuccess(t) ELSE PostFailure(t)

----------------------------------------------------------------------------
(* The arguments of init() *)

Edges(N) == {e \in (1..N) \X (1..N) : e[1] # e[2]}

RECURSIVE EdgeSets(_, _)
EdgeSets(N, k) ==
    IF k = 0 THEN {{}}
    ELSE LET P == EdgeSets(N, k - 1) IN P \cup {p \cup {e} : p \in P, e \in Edges(N)}

\* the std::map built from a set of link edges
LinkMap(E) == [u \in {e[1] : e \in E} |-> {e[2] : e \in {f \in E : f[1] = u}}]

\* a member without an initializer holds an indeterminate value
Indeterminate == {0, 1}

----------------------------------------------------------------------------
(* The session: init, then trim / post rounds until post returns 1 *)

TrimmerNew(i) ==
    [config_ |-> {}, links_ |-> <<>>, subsets_ |-> <<>>, i_ |-> i,
     next_config_ |-> {}, config_cache_ |-> {}]

ContentUnused ==
    /\ content = "unused"
    /\ world = "unused"
    /\ recalled = <<>>
    /\ inner = -1

MemoUnused ==
    /\ memo = "unused"
    /\ calls = <<>>

ToolUnused ==
    /\ tool = "unused"
    /\ created = "none"

ForestUnused == forest = "unused"

FuzzUnused == fuzz = "unused"

GeneratorUnused == gen = "unused"

PopulationUnused == population = "unused"

RestUnused ==
    /\ ForestUnused
    /\ FuzzUnused
    /\ GeneratorUnused
    /\ PopulationUnused

TrimInitial ==
    /\ ToolUnused
    /\ ContentUnused
    /\ MemoUnused
    /\ RestUnused
    /\ trimmer \in {TrimmerNew(i) : i \in Indeterminate}
    /\ phase = "new"
    /\ ret = -1
    /\ initial = [config |-> {}, links |-> <<>>]
    /\ trimmed = <<>>
    /\ answers = <<>>

\* trimmer.init(config, links)
TrimInit ==
    /\ phase = "new"
    /\ \E N \in 0..MaxUnits : \E E \in EdgeSets(N, MaxLinks) :
         \E r \in {next(InitState(trimmer, 1..N, LinkMap(E)))} :
            /\ trimmer' = r.t
            /\ ret' = IF r.found THEN 1 ELSE 0
            /\ phase' = IF r.found THEN "trim" ELSE "done"
            /\ initial' = [config |-> 1..N, links |-> LinkMap(E)]
    /\ UNCHANGED <<trimmed, answers, outsideTrim>>

\* trimmer.trim()
Trim ==
    /\ phase = "trim"
    /\ trimmed' = Append(trimmed, trimmer.next_config_)
    /\ phase' = "post"
    /\ UNCHANGED <<ret, initial, answers, trimmer, outsideTrim>>

\* trimmer.post(success)
Post ==
    /\ phase = "post"
    /\ \E success \in BOOLEAN :
         \E r \in {next(PostState(trimmer, success))} :
            /\ trimmer' = r.t
            /\ ret' = IF r.found THEN 0 ELSE 1
            /\ phase' = IF r.found THEN "trim" ELSE "done"
            /\ answers' = Append(answers, success)
    /\ UNCHANGED <<initial, trimmed, outsideTrim>>

TrimNext == TrimInit \/ Trim \/ Post

SpecTrim == TrimInitial /\ [][TrimNext]_vars

----------------------------------------------------------------------------
(* Properties of a ConfigTrimmer session *)

Range(s) == {s[k] : k \in 1..Len(s)}

\* the configuration being reduced when trimmed[k] was presented: the last
\* accepted configuration before it, or the initial one
RECURSIVE AcceptedBefore(_)
AcceptedBefore(k) ==
    IF k <= 1 THEN initial.config
    ELSE IF answers[k - 1] THEN trimmed[k - 1] ELSE AcceptedBefore(k - 1)

\* the units reachable from u by following the links
RECURSIVE Reach(_, _)
Reach(links, S) ==
    LET T == S \cup UNION {links[u] : u \in S \cap DOMAIN links}
    IN IF T = S THEN S ELSE Reach(links, T)

LinkClosed(links, c) ==
    \A u \in DOMAIN links : u \notin c => Reach(links, links[u]) \cap c = {}

\* C1: within a session no configuration returned by trim() is returned by a
\* later trim(): every configuration is presented to the oracle at most once.
C1_ConfigPresentedOnce ==
    \A j, k \in 1..Len(trimmed) : j < k => trimmed[j] # trimmed[k]

\* two rejected halves were presented, their complements (the same two
\* configurations) were skipped by the cache, and the splitting was refined
C1_Witness ==
    /\ phase = "trim"
    /\ answers = <<FALSE, FALSE>>
    /\ Len(trimmer.subsets_) = 4
    /\ trimmer.config_cache_ = Range(trimmed)

\* C3: the configurations on which post(true) is called are non-increasing
\* in cardinality: each is a subset of the previously accepted one (or of the
\* initial configuration) and never larger than it.
C3_AcceptedShrink ==
    \A k \in 1..Len(answers) :
        answers[k] =>
            /\ trimmed[k] \subseteq AcceptedBefore(k)
            /\ Cardinality(trimmed[k]) <= Cardinality(AcceptedBefore(k))

\* two configurations were accepted one after the other
C3_Witness ==
    \E j, k \in 1..Len(answers) :
        /\ j < k
        /\ answers[j]
        /\ answers[k]
        /\ AcceptedBefore(k) = trimmed[j]

\* every answer so far is the one of the oracle that accepts exactly the
\* configurations containing a
OracleAccepts(a) == \A k \in 1..Len(answers) : answers[k] = (a \in trimmed[k])

ScenarioS5(a) ==
    /\ phase = "done"
    /\ initial.config = 1..4
    /\ DOMAIN initial.links = {}
    /\ OracleAccepts(a)

\* C4: scenario S5: from {a,b,c,d} without links and an oracle accepting
\* exactly the configurations that contain a, the session ends with the
\* accepted configuration {a} and no configuration was presented twice,
\* wherever a stands in the order of the four units.
C4_ScenarioS5 ==
    \A a \in 1..4 :
        ScenarioS5(a) =>
            /\ trimmer.config_ = {a}
            /\ AcceptedBefore(Len(answers) + 1) = {a}
            /\ \A j, k \in 1..Len(trimmed) : j < k => trimmed[j] # trimmed[k]

\* the scenario ran to its end with a the third unit: a half without a was
\* rejected on the way
C4_Witness == ScenarioS5(3) /\ FALSE \in Range(answers) /\ TRUE \in Range(answers)

\* C5: every configuration returned by trim() is closed under links: no
\* unit reachable through links from a link key that is missing from the
\* candidate is in the candidate.
C5_LinkClosed ==
    /\ phase \in {"trim", "post"} => LinkClosed(initial.links, trimmer.next_config_)
    /\ \A k \in 1..Len(trimmed) : LinkClosed(initial.links, trimmed[k])

\* a candidate from which a unit was removed through a chain of two links
C5_Witness ==
    /\ phase = "trim"
    /\ \E u \in DOMAIN initial.links : \E v \in initial.links[u] :
         /\ u \notin RawConfig(trimmer, Len(trimmer.subsets_))
         /\ v \in RawConfig(trimmer, Len(trimmer.subsets_))
         /\ v \in DOMAIN initial.links
         /\ initial.links[v] \cap RawConfig(trimmer, Len(trimmer.subsets_)) # {}
         /\ initial.links[v] \cap trimmer.next_config_ = {}

----------------------------------------------------------------------------
(* Derivation trees (runtime/Rule.hpp): the heap maps the address of an
   allocated node to its fields *)

\* nullptr
Null == 0

\* UnlexerRule(name, src, size, immutable)
UnlexerRule(name, src, size, immutable) ==
    [type |-> "UnlexerRule", name |-> name, parent |-> Null, children |-> <<>>,
     src |-> src, size |-> size, immutable |-> immutable,
     idx |-> 0, start |-> 0, stop |-> 0, alt_idx |-> 0]

\* RuleSize(depth, tokens)
RuleSize(depth, tokens) == [depth |-> depth, tokens |-> tokens]

\* a node of a ParentRule subclass
ParentRule(type, name, idx, start, stop, alt_idx) ==
    [type |-> type, name |-> name, parent |-> Null, children |-> <<>>,
     src |-> <<>>, size |-> RuleSize(0, 0), immutable |-> FALSE,
     idx |-> idx, start |-> start, stop |-> stop, alt_idx |-> alt_idx]

UnparserRule(name) == ParentRule("UnparserRule", name, 0, 0, 0, 0)

UnparserRuleQuantifier(idx, start, stop) ==
    ParentRule("UnparserRuleQuantifier", "", idx, start, stop, 0)

UnparserRuleQuantified == ParentRule("UnparserRuleQuantified", "", 0, 0, 0, 0)

UnparserRuleAlternative(alt_idx, idx) ==
    ParentRule("UnparserRuleAlternative", "", idx, 0, 0, alt_idx)

\* the sequence without the first occurrence of x: std::find and erase
\* (every caller erases an element that is in the sequence)
Erase(s, x) ==
    LET at == Least({i \in 1..Len(s) : s[i] = x})
    IN SubSeq(s, 1, at - 1) \o SubSeq(s, at + 1, Len(s))

\* void Rule::remove()
RuleRemoveNode(h, n) ==
    IF h[n].parent # Null
    THEN [h EXCEPT ![h[n].parent].children = Erase(@, n), ![n].parent = Null]
    ELSE h

RuleRemove(h, n) == ByValue(LAMBDA heap : RuleRemoveNode(heap, n), h)

\* void ParentRule::add_child(node)
add_child(h, p, n) ==
    [RuleRemove(h, n) EXCEPT ![p].children = Append(@, n), ![n].parent = p]

\* the nodes of the subtree of n, as the children lists give it
RECURSIVE Subtree(_, _)
Subtree(h, n) ==
    {n} \cup UNION {Subtree(h, h[n].children[i]) : i \in 1..Len(h[n].children)}

\* delete node: ~ParentRule deletes the children, then the node is freed;
\* freed counts how many times each address was freed
Delete(h, freed, n) ==
    [a \in DOMAIN freed |-> IF a \in Subtree(h, n) THEN freed[a] + 1 ELSE freed[a]]

\* a tree to build: the node and the trees of its children
Term(node, kids) == [node |-> node, kids |-> kids]

\* build the tree of a term under parent p; the k-th allocation returns alloc[k]
RECURSIVE BuildNode(_, _, _, _)
RECURSIVE BuildKids(_, _, _, _, _)
BuildNode(term, h, p, alloc) ==
    LET id == alloc[Cardinality(DOMAIN h) + 1]
    IN BuildKids(term.kids, 1,
                 IF p = Null THEN h @@ (id :> term.node)
                 ELSE add_child(h @@ (id :> term.node), p, id),
                 id, alloc)

Build(term, h, p, alloc) == ByValue(LAMBDA heap : BuildNode(term, heap, p, alloc), h)

BuildKids(kids, i, h, p, alloc) ==
    IF i > Len(kids) THEN h
    ELSE BuildKids(kids, i + 1, Build(kids[i], h, p, alloc), p, alloc)

\* the number of nodes of a term
RECURSIVE TermSize(_)
RECURSIVE TermsSize(_)
TermSize(term) == 1 + TermsSize(term.kids)

TermsSize(kids) == IF kids = <<>> THEN 0 ELSE TermSize(Head(kids)) + TermsSize(Tail(kids))

\* the bytes of the names of the rules
NameBytes ==
    ("" :> <<>>) @@ ("S" :> <<83>>) @@ ("A" :> <<65>>) @@ ("B" :> <<66>>) @@
    ("a" :> <<97>>) @@ ("b" :> <<98>>) @@ ("c" :> <<99>>) @@ ("d" :> <<100>>) @@
    ("C" :> <<67>>) @@ ("D" :> <<68>>) @@ ("<ROOT>" :> <<60, 82, 79, 79, 84, 62>>)

\* the type tag of a node in the encoded tree
TypeTag ==
    [UnlexerRule |-> 108, UnparserRule |-> 112, UnparserRuleAlternative |-> 97,
     UnparserRuleQuantified |-> 100, UnparserRuleQuantifier |-> 113]

\* INT_MAX
INT_MAX == 2147483647

\* a small number as a byte
Byte(n) == IF n = INT_MAX \/ n < 0 THEN 255 ELSE n % 255

\* codec.encode(root): the fields of each node and, for a parent, its
\* children in order
RECURSIVE Encode(_, _)
RECURSIVE EncodeChildren(_, _, _)
Encode(h, n) ==
    LET node == h[n]
    IN IF node.type = "UnlexerRule"
       THEN <<123, TypeTag[node.type]>> \o NameBytes[node.name] \o <<58>> \o node.src
            \o <<58, Byte(node.size.depth), Byte(node.size.tokens),
                 IF node.immutable THEN 1 ELSE 0, 125>>
       ELSE <<123, TypeTag[node.type]>>
            \o (IF node.type = "UnparserRule" THEN NameBytes[node.name]
                ELSE IF node.type = "UnparserRuleAlternative"
                     THEN <<Byte(node.alt_idx), Byte(node.idx)>>
                ELSE IF node.type = "UnparserRuleQuantifier"
                     THEN <<Byte(node.idx), Byte(node.start), Byte(node.stop)>>
                ELSE <<>>)
            \o <<91>> \o EncodeChildren(h, node.children, 1) \o <<93, 125>>

EncodeChildren(h, kids, i) ==
    IF i > Len(kids) THEN <<>>
    ELSE Encode(h, kids[i]) \o EncodeChildren(h, kids, i + 1)

----------------------------------------------------------------------------
(* ContentTrimmer (libgrafl/trimmer.hpp) *)

\* the range of hash_type: XXH64_hash_t narrowed so that the product of two
\* hashes is a 32-bit integer
HashModulus == 46337

\* 257 to the power k, in the range of the hash
RECURSIVE HashPower(_)
HashPower(k) ==
    IF k = 0 THEN 1
    ELSE LET half == HashPower(k \div 2)
             square == (half * half) % HashModulus
         IN IF k % 2 = 1 THEN (square * 257) % HashModulus ELSE square

\* the hash of the bytes s[lo..hi]: every byte is mixed into the hash of the
\* bytes before it
RECURSIVE HashRange(_, _, _)
HashRange(s, lo, hi) ==
    IF lo > hi THEN 0
    ELSE IF lo = hi THEN (s[lo] + 1) % HashModulus
    ELSE LET mid == (lo + hi) \div 2
         IN (HashRange(s, lo, mid) * HashPower(hi - mid) + HashRange(s, mid + 1, hi))
                % HashModulus

\* the hash of a byte string
XXH3_64bits(s) == HashRange(s, 1, Len(s))

\* hasher_(content)
Hasher(s) == XXH3_64bits(s)

\* a serializer that concatenates the text of the units of the configuration
RECURSIVE Concat(_, _)
Concat(src, units) ==
    IF units = <<>> THEN <<>> ELSE src[Head(units)] \o Concat(src, Tail(units))

\* std::map insert into the set at a key
MapInsert(m, k, v) ==
    IF k \in DOMAIN m THEN [m EXCEPT ![k] = @ \cup {v}] ELSE m @@ (k :> {v})

\* std::map::try_emplace
TryEmplace(m, k, v) == IF k \in DOMAIN m THEN m ELSE m @@ (k :> v)

\* a serializer that leaves the children of the removed parents as they are
RestoreChildren_Keep(h, removed_parents, saved) == h

\* the serializer of afl_custom_init_trim: reset the children of the removed
\* parents to the saved state
RestoreChildren(h, removed_parents, saved) ==
    [p \in DOMAIN h |-> IF p \in removed_parents
                        THEN [h[p] EXCEPT !.children = saved[p]]
                        ELSE h[p]]

\* the serializer of afl_custom_init_trim: erase the removed nodes from the
\* children of their parents, without resetting their parent
RECURSIVE HideRemoved(_, _)
HideRemoved(h, nodes) ==
    IF nodes = <<>> THEN h
    ELSE HideRemoved(
             ByValue(LAMBDA heap :
                         [heap EXCEPT ![heap[Head(nodes)].parent].children =
                                          Erase(@, Head(nodes))],
                     h),
             Tail(nodes))

\* the serializer of afl_custom_init_trim
GraflSerializerRun(st, trimmed_config) ==
    LET removed_config == st.trim_init_config \ trimmed_config
        removed_parents == {st.tree[n].parent : n \in removed_config}
        Finish(hidden) ==
            LET out_vec == Encode(hidden, st.current_tree)
                Return(restored) ==
                    [world |-> [st EXCEPT !.tree = restored, !.left = @ \cup {restored}],
                     content |-> out_vec]
            IN ByValue(Return,
                       RestoreChildren(hidden, removed_parents, st.trim_saved_children))
    IN ByValue(Finish, HideRemoved(st.tree, SetToSeq(removed_config)))

GraflSerializer(st, trimmed_config) ==
    ByValue(LAMBDA state : GraflSerializerRun(state, trimmed_config), st)

\* serializer_(config): the content, and the world the call leaves behind
Serialize(serializer, w, cfg) ==
    IF serializer.kind = "grafl"
    THEN GraflSerializer(w, cfg)
    ELSE [world |-> w, content |-> Concat(serializer.src, SetToSeq(cfg))]

\* int ConfigTrimmer::post(bool success)
post(t, success) == next(PostState(t, success))

\* bool ContentTrimmer::next(): skip the candidates whose content is cached
RECURSIVE ContentNext(_, _)
RECURSIVE ContentNextSerialized(_, _)
ContentNextSerialized(ct, s) ==
    LET ct1 == [ct EXCEPT !.next_config_ = ct.trimmer_.next_config_,
                          !.next_content_ = s.content]
        Skip(r) ==
            IF ~r.found
            THEN [ct |-> [ct1 EXCEPT !.trimmer_ = r.t], world |-> s.world, found |-> FALSE]
            ELSE ContentNext([ct1 EXCEPT !.trimmer_ = r.t], s.world)
    IN IF Hasher(s.content) \notin DOMAIN ct.content_cache_
       THEN [ct |-> ct1, world |-> s.world, found |-> TRUE]
       ELSE ByValue(Skip, post(ct.trimmer_, FALSE))

ContentNext(ct, w) ==
    ByValue(LAMBDA c :
                ByValue(LAMBDA s : ContentNextSerialized(c, s),
                        Serialize(c.serializer_, w, c.trimmer_.next_config_)),
            ct)

\* int ContentTrimmer::init(config, serializer, hasher, links)
ContentTrimmerInit(ct, w, config, serializer, links) ==
    LET Started(r) ==
            IF ~r.found
            THEN [ct |-> [ct EXCEPT !.trimmer_ = r.t], world |-> w,
                  found |-> FALSE, inner |-> 0]
            ELSE ByValue(LAMBDA n : [ct |-> n.ct, world |-> n.world,
                                     found |-> n.found, inner |-> 1],
                         ContentNext([ct EXCEPT !.trimmer_ = r.t,
                                                !.serializer_ = serializer,
                                                !.content_cache_ = <<>>], w))
    IN ByValue(Started, next(InitState(ct.trimmer_, config, links)))

\* the content cache after post(true): the entries larger than the content are evicted
CacheAfterSuccess(cache, size) ==
    [h \in {g \in DOMAIN cache : ~(cache[g] > size)} |-> cache[h]]

\* the content cache after post(false): content_cache_.emplace(hash, size)
CacheAfterFailure(cache, hash, size) ==
    [h \in DOMAIN cache \cup {hash} |-> IF h \in DOMAIN cache THEN cache[h] ELSE size]

\* int ContentTrimmer::post(bool success)
ContentTrimmerPost(ct, w, success) ==
    LET size == Len(ct.next_content_)
        cache == IF success
                 THEN CacheAfterSuccess(ct.content_cache_, size)
                 ELSE CacheAfterFailure(ct.content_cache_, Hasher(ct.next_content_), size)
        Posted(r) ==
            IF ~r.found
            THEN [ct |-> [ct EXCEPT !.content_cache_ = cache, !.trimmer_ = r.t],
                  world |-> w, found |-> FALSE]
            ELSE ContentNext([ct EXCEPT !.content_cache_ = cache, !.trimmer_ = r.t], w)
    IN ByValue(Posted, post(ct.trimmer_, success))

ContentTrimmerNew(i) ==
    [trimmer_ |-> TrimmerNew(i), serializer_ |-> "none", next_config_ |-> {},
     next_content_ |-> <<>>, content_cache_ |-> <<>>]

----------------------------------------------------------------------------
(* A ContentTrimmer session with a text serializer *)

\* the texts a unit may contribute to the content
Texts == {<<>>, <<97>>, <<98>>}

TrimUnused ==
    /\ trimmer = "unused"

ContentInitial ==
    /\ ToolUnused
    /\ TrimUnused
    /\ MemoUnused
    /\ RestUnused
    /\ content \in {ContentTrimmerNew(i) : i \in Indeterminate}
    /\ world = "none"
    /\ phase = "new"
    /\ ret = -1
    /\ inner = -1
    /\ initial = [config |-> {}, links |-> <<>>]
    /\ trimmed = <<>>
    /\ recalled = <<>>
    /\ answers = <<>>

\* content.init(config, serializer, hasher, links)
ContentInit ==
    /\ phase = "new"
    /\ \E N \in 0..MaxContentUnits : \E E \in EdgeSets(N, MaxContentLinks) :
       \E src \in [1..N -> Texts] :
         \E r \in {ContentTrimmerInit(content, world, 1..N,
                                      [kind |-> "concat", src |-> src], LinkMap(E))} :
            /\ content' = r.ct
            /\ world' = r.world
            /\ inner' = r.inner
            /\ ret' = IF r.found THEN 1 ELSE 0
            /\ phase' = IF r.found THEN "trim" ELSE "done"
            /\ initial' = [config |-> 1..N, links |-> LinkMap(E)]
    /\ UNCHANGED <<trimmed, recalled, answers, outsideContent>>

\* content.trim(), content.recall()
ContentTrim ==
    /\ phase = "trim"
    /\ trimmed' = Append(trimmed, content.next_content_)
    /\ recalled' = Append(recalled, content.next_config_)
    /\ phase' = "post"
    /\ UNCHANGED <<content, world, ret, inner, initial, answers, outsideContent>>

\* content.post(success)
ContentPost ==
    /\ phase = "post"
    /\ \E success \in BOOLEAN :
         \E r \in {ContentTrimmerPost(content, world, success)} :
            /\ content' = r.ct
            /\ world' = r.world
            /\ ret' = IF r.found THEN 0 ELSE 1
            /\ phase' = IF r.found THEN "trim" ELSE "done"
            /\ answers' = Append(answers, success)
    /\ UNCHANGED <<inner, initial, trimmed, recalled, outsideContent>>

ContentSessionNext == ContentInit \/ ContentTrim \/ ContentPost

SpecContent == ContentInitial /\ [][ContentSessionNext]_vars

\* C2: within a ContentTrimmer session no serialized content is presented
\* twice: no trim() returns a content whose hash an earlier trim() returned,
\* whether that one was accepted or rejected.
C2_ContentPresentedOnce ==
    \A j, k \in 1..Len(trimmed) : j < k => Hasher(trimmed[j]) # Hasher(trimmed[k])

\* only a content that was rejected, and not evicted since, is kept from
\* being presented again
C2_RejectedContentCached ==
    \A k \in 1..Len(trimmed) :
        (k > Len(answers) \/ ~answers[k]) =>
            \A j \in 1..(k - 1) :
                (~answers[j] /\ \A m \in (j + 1)..(k - 1) :
                                  answers[m] => Len(trimmed[m]) >= Len(trimmed[j]))
                    => Hasher(trimmed[j]) # Hasher(trimmed[k])

\* C6: init returns 0 when the initial configuration has fewer than 2 units
\* and 1 otherwise (the ConfigTrimmer inside and the ContentTrimmer alike),
\* and then a first candidate is available from trim().
C6_InitResult ==
    (phase # "new" /\ answers = <<>>) =>
        LET small == Cardinality(initial.config) < 2
        IN /\ inner = IF small THEN 0 ELSE 1
           /\ ret = IF small THEN 0 ELSE 1
           /\ ret = 1 =>
                /\ phase \in {"trim", "post"}
                /\ content.trimmer_.next_config_ \subseteq initial.config
                /\ content.trimmer_.next_config_ # initial.config
                /\ content.trimmer_.next_config_ \notin content.trimmer_.config_cache_
                /\ content.next_config_ = content.trimmer_.next_config_
                /\ content.next_content_ =
                       Concat(content.serializer_.src, SetToSeq(content.next_config_))

\* init returned 1 on a configuration of two units and trim() returned the
\* first candidate
C6_Witness ==
    /\ phase = "post"
    /\ answers = <<>>
    /\ Cardinality(initial.config) = 2
    /\ ret = 1
    /\ Len(trimmed) = 1

----------------------------------------------------------------------------
(* The trim session of the AFL++ custom mutator (libgrafl/grafl.cpp) *)

\* largest GRAFL_MAX_TRIM_STEPS set in the environment
MaxTrimSteps == 3
\* trim_max_steps when GRAFL_MAX_TRIM_STEPS is not set
DefaultMaxTrimSteps == 200

\* grafl_state after afl_custom_init and afl_custom_queue_get, with the heap
\* of the nodes of the trees
GraflState(h, root, max_steps) ==
    [tree |-> h, freed |-> [a \in DOMAIN h |-> 0], current_tree |-> root,
     trim_step |-> 0, trim_max_steps |-> max_steps,
     trim_init_config |-> {}, trim_links |-> <<>>, trim_saved_children |-> <<>>,
     trim_succ_config |-> {}, population |-> <<>>,
     left |-> {}, log |-> <<>>]

\* the collector of afl_custom_init_trim: the quantified nodes, the links
\* from each to the quantified nodes directly below it, and the children of
\* their parents
RECURSIVE collectorNode(_, _, _)
RECURSIVE collectorChildren(_, _, _, _)
collectorNode(st, node, quantified_ancestor) ==
    LET h == st.tree
        quantified == h[node].type = "UnparserRuleQuantified"
        st1 == IF quantified
               THEN [st EXCEPT
                       !.trim_init_config = @ \cup {node},
                       !.trim_links = IF quantified_ancestor # Null
                                      THEN MapInsert(@, quantified_ancestor, node)
                                      ELSE @,
                       !.trim_saved_children =
                           TryEmplace(@, h[node].parent, h[h[node].parent].children)]
               ELSE st
        ancestor == IF quantified THEN node ELSE quantified_ancestor
    IN IF h[node].type # "UnlexerRule"
       THEN collectorChildren(st1, h[node].children, 1, ancestor)
       ELSE st1

collector(st, node, quantified_ancestor) ==
    ByValue(LAMBDA state : collectorNode(state, node, quantified_ancestor), st)

collectorChildren(st, kids, i, quantified_ancestor) ==
    IF i > Len(kids) THEN st
    ELSE collectorChildren(collector(st, kids[i], quantified_ancestor),
                           kids, i + 1, quantified_ancestor)

\* the commit of afl_custom_post_trim: first detach all removed nodes
RECURSIVE CommitRemove(_, _)
CommitRemove(st, nodes) ==
    IF nodes = <<>> THEN st
    ELSE CommitRemove([st EXCEPT !.tree = RuleRemove(@, Head(nodes)),
                                 !.log = Append(@, [op |-> "remove", node |-> Head(nodes)])],
                      Tail(nodes))

\* delete node, recorded in the log
DeleteNode(st, n) ==
    [st EXCEPT !.freed = Delete(st.tree, @, n),
               !.log = Append(@, [op |-> "delete", node |-> n])]

\* the commit of afl_custom_post_trim: then delete them
RECURSIVE CommitDelete(_, _)
CommitDelete(st, nodes) ==
    IF nodes = <<>> THEN st
    ELSE CommitDelete(ByValue(LAMBDA state : DeleteNode(state, Head(nodes)), st),
                      Tail(nodes))

\* a commit that detaches and deletes the removed nodes one by one
RECURSIVE Commit_OneByOne(_, _)
Commit_OneByOne(st, nodes) ==
    IF nodes = <<>> THEN st
    ELSE Commit_OneByOne(
             ByValue(LAMBDA state : DeleteNode(state, Head(nodes)),
                     [st EXCEPT !.tree = RuleRemove(@, Head(nodes)),
                                !.log = Append(@, [op |-> "remove", node |-> Head(nodes)])]),
             Tail(nodes))

\* the commit of afl_custom_post_trim on the removed nodes, in the order of
\* the set
Commit(st, nodes) == CommitDelete(CommitRemove(st, nodes), nodes)

\* tool->save_tree(root): the population takes a copy of the tree
save_tree(st, root) ==
    ByValue(LAMBDA state : [state EXCEPT !.population = Append(@, Encode(state.tree, root))],
            st)

\* the allocation orders of the nodes of a tree
Allocations(n) == {[k \in 1..n |-> k], [k \in 1..n |-> n + 1 - k]}

\* a token
Token(name) == Term(UnlexerRule(name, NameBytes[name], RuleSize(1, 1), FALSE), <<>>)

\* a quantifier with its quantified children, each holding the given trees
Quantifier(idx, items) ==
    Term(UnparserRuleQuantifier(idx, 0, INT_MAX),
         [k \in 1..Len(items) |-> Term(UnparserRuleQuantified, items[k])])

\* the trees the session trims
TrimTrees ==
    { Term(UnparserRule("S"), <<Token("a")>>),
      Term(UnparserRule("S"), <<Quantifier(0, << <<Token("a")>> >>)>>),
      Term(UnparserRule("S"), <<Quantifier(0, << <<Token("a")>>, <<Token("b")>> >>)>>),
      Term(UnparserRule("S"),
           <<Quantifier(0, << <<Token("a")>>, <<Token("a")>>, <<Token("b")>> >>)>>),
      Term(UnparserRule("S"),
           <<Quantifier(0, << <<Token("a"),
                               Quantifier(1, << <<Token("b")>>, <<Token("c")>> >>)>>,
                             <<Token("d")>> >>)>>),
      Term(UnparserRule("S"),
           <<Quantifier(0, << <<Term(UnparserRule("A"),
                                     <<Quantifier(0, << <<Quantifier(1, << <<Token("b")>> >>)>> >>)>>)>> >>),
             Quantifier(1, << <<Token("c")>> >>)>>) }

GraflInitial ==
    /\ ToolUnused
    /\ TrimUnused
    /\ MemoUnused
    /\ RestUnused
    /\ content \in {ContentTrimmerNew(i) : i \in Indeterminate}
    /\ \E term \in TrimTrees : \E alloc \in Allocations(TermSize(term)) :
       \E max_steps \in (1..MaxTrimSteps) \cup {DefaultMaxTrimSteps} :
         world = GraflState(Build(term, <<>>, Null, alloc), alloc[1], max_steps)
    /\ phase = "new"
    /\ ret = -1
    /\ inner = -1
    /\ initial = [config |-> {}, links |-> <<>>, tree |-> <<>>]
    /\ trimmed = <<>>
    /\ recalled = <<>>
    /\ answers = <<>>

\* int afl_custom_init_trim(data, buf, size)
afl_custom_init_trim ==
    /\ phase = "new"
    /\ \E st2 \in {collector([world EXCEPT !.trim_step = 1, !.trim_init_config = {},
                                              !.trim_links = <<>>,
                                              !.trim_saved_children = <<>>],
                                world.current_tree, Null)} :
       \E st3 \in {[st2 EXCEPT !.trim_succ_config = st2.trim_init_config]} :
       \E r \in {ContentTrimmerInit(content, st3, st3.trim_init_config,
                                    [kind |-> "grafl"], st3.trim_links)} :
          /\ content' = r.ct
          /\ world' = r.world
          /\ inner' = r.inner
          /\ ret' = IF r.found THEN 1 ELSE 0
          /\ phase' = IF r.found THEN "trim" ELSE "done"
          /\ initial' = [config |-> st3.trim_init_config, links |-> st3.trim_links,
                         tree |-> st3.tree]
    /\ UNCHANGED <<trimmed, recalled, answers, outsideContent>>

\* size_t afl_custom_trim(data, out_buf)
afl_custom_trim ==
    /\ phase = "trim"
    /\ trimmed' = Append(trimmed, content.next_content_)
    /\ recalled' = Append(recalled, content.next_config_)
    /\ phase' = "post"
    /\ UNCHANGED <<content, world, ret, inner, initial, answers, outsideContent>>

\* int afl_custom_post_trim(data, success)
afl_custom_post_trim ==
    /\ phase = "post"
    /\ \E success \in BOOLEAN :
       \E st1 \in {IF success
                   THEN [world EXCEPT !.trim_succ_config = content.next_config_]
                   ELSE world} :
       \E limit \in {st1.trim_step >= st1.trim_max_steps} :
       \E r \in {IF limit THEN [ct |-> content, world |-> st1, found |-> FALSE]
                  ELSE ContentTrimmerPost(content, st1, success)} :
       \E post_result \in {IF limit THEN 1 ELSE IF r.found THEN 0 ELSE 1} :
       \E st2 \in {IF post_result = 0 THEN [r.world EXCEPT !.trim_step = @ + 1]
                   ELSE r.world} :
          /\ content' = r.ct
          /\ world' = IF post_result > 0
                      THEN save_tree(Commit(st2, SetToSeq(st2.trim_init_config
                                                           \ st2.trim_succ_config)),
                                     st2.current_tree)
                      ELSE st2
          /\ ret' = post_result
          /\ phase' = IF post_result > 0 THEN "done" ELSE "trim"
          /\ answers' = Append(answers, success)
    /\ UNCHANGED <<inner, initial, trimmed, recalled, outsideContent>>

GraflNext == afl_custom_init_trim \/ afl_custom_trim \/ afl_custom_post_trim

SpecGrafl == GraflInitial /\ [][GraflNext]_vars

\* the configuration the oracle accepted last, or the initial one
RECURSIVE LastAccepted(_)
LastAccepted(k) ==
    IF k = 0 THEN initial.config
    ELSE IF answers[k] THEN recalled[k] ELSE LastAccepted(k - 1)

\* the session went through afl_custom_post_trim to its end
Committed == phase = "done" /\ answers # <<>>

\* the units the commit has to remove
Removed == initial.config \ LastAccepted(Len(answers))

\* the nodes the log records for an operation
Logged(op) == {world.log[i].node : i \in {j \in 1..Len(world.log) : world.log[j].op = op}}

\* the initial tree without the subtrees of the removed units
RECURSIVE EraseAll(_, _)
EraseAll(h, nodes) ==
    IF nodes = <<>> THEN h
    ELSE EraseAll([h EXCEPT ![h[Head(nodes)].parent].children = Erase(@, Head(nodes))],
                  Tail(nodes))

\* C7: when the trim session ends, the tree is committed to the last
\* configuration the oracle accepted (the initial one if none was): exactly
\* the units missing from it are removed, every one of them is detached
\* before any is freed, and each node of their subtrees is freed exactly
\* once, also when a removed unit is nested in another; what is left is the
\* initial tree without the removed units and nothing of it is freed.
C7_CommitRemovesOnce ==
    Committed =>
        /\ Logged("remove") = Removed
        /\ Logged("delete") = Removed
        /\ Len(world.log) = 2 * Cardinality(Removed)
        /\ \A i, j \in 1..Len(world.log) :
             (world.log[i].op = "remove" /\ world.log[j].op = "delete") => i < j
        /\ \A a \in DOMAIN world.freed :
             world.freed[a] = IF a \in UNION {Subtree(initial.tree, u) : u \in Removed}
                              THEN 1 ELSE 0
        /\ \A u \in Removed : world.tree[u].parent = Null
        /\ Subtree(world.tree, world.current_tree) =
               Subtree(initial.tree, world.current_tree)
                   \ UNION {Subtree(initial.tree, u) : u \in Removed}
        /\ Encode(world.tree, world.current_tree) =
               Encode(EraseAll(initial.tree, SetToSeq(Removed)), world.current_tree)

\* a session ended with a removed unit nested in another removed unit that
\* has the smaller address, and a unit that stays
C7_Witness ==
    /\ Committed
    /\ \E u, v \in Removed : u < v /\ v \in Subtree(initial.tree, u)
    /\ Removed # initial.config

\* C8: serializing a trim candidate does not change the tree: after every
\* call of the serializer each parent's children list and each node's parent
\* pointer are as they were at afl_custom_init_trim, and until the commit
\* the tree is the full initial tree.
C8_SerializerLeavesTree ==
    phase # "new" =>
        /\ \A h \in world.left :
             \A n \in DOMAIN initial.tree :
                 /\ h[n].children = initial.tree[n].children
                 /\ h[n].parent = initial.tree[n].parent
        /\ phase \in {"trim", "post"} => world.tree = initial.tree

\* a candidate without a unit and without the units nested in it was
\* serialized
C8_Witness ==
    /\ phase = "post"
    /\ world.left # {}
    /\ \E u, v \in initial.config \ content.next_config_ :
         u # v /\ v \in Subtree(initial.tree, u)

----------------------------------------------------------------------------
(* The memo of recent tests (Tool::memoize_test, GeneratorTool::memoize_test) *)

\* largest memo_size
MaxMemoSize == 2
\* largest number of memoize_test calls
MaxMemoCalls == 5

\* the tests handed to memoize_test
MemoInputs == {<<>>, <<97>>, <<98>>, <<97, 98>>}

\* what the memo stores for a test: Tool stores its hash, GeneratorTool the test
MemoKey(flavour, test) == IF flavour = "Tool" THEN XXH3_64bits(test) ELSE test

\* memoize_test that evicts the newest entry instead of the oldest
memoize_test_EvictNewest(m, test) ==
    IF m.memo_size < 1 THEN [m |-> m, result |-> TRUE]
    ELSE IF MemoKey(m.flavour, test) \in m.memo THEN [m |-> m, result |-> FALSE]
    ELSE LET key == MemoKey(m.flavour, test)
             memo1 == m.memo \cup {key}
         IN IF Cardinality(memo1) > m.memo_size
            THEN [m |-> [m EXCEPT !.memo = memo1 \ {m.memo_order[Len(m.memo_order)]},
                                  !.memo_order = Append(SubSeq(@, 1, Len(@) - 1), key)],
                  result |-> TRUE]
            ELSE [m |-> [m EXCEPT !.memo = memo1, !.memo_order = Append(@, key)],
                  result |-> TRUE]

\* memoize_test that never evicts
memoize_test_NoEvict(m, test) ==
    IF m.memo_size < 1 THEN [m |-> m, result |-> TRUE]
    ELSE LET key == MemoKey(m.flavour, test)
         IN IF key \in m.memo THEN [m |-> m, result |-> FALSE]
            ELSE [m |-> [m EXCEPT !.memo = @ \cup {key}, !.memo_order = Append(@, key)],
                  result |-> TRUE]

\* bool memoize_test(test): false if the test is in the memo, otherwise insert
\* it and, if the memo grew over memo_size, evict the oldest entry
memoize_test(m, test) ==
    IF m.memo_size < 1 THEN [m |-> m, result |-> TRUE]
    ELSE LET key == MemoKey(m.flavour, test)
         IN IF key \in m.memo THEN [m |-> m, result |-> FALSE]
            ELSE LET memo1 == m.memo \cup {key}
                     order1 == Append(m.memo_order, key)
                 IN IF Cardinality(memo1) > m.memo_size
                    THEN [m |-> [m EXCEPT !.memo = memo1 \ {Head(order1)},
                                          !.memo_order = Tail(order1)],
                          result |-> TRUE]
                    ELSE [m |-> [m EXCEPT !.memo = memo1, !.memo_order = order1],
                          result |-> TRUE]

MemoInitial ==
    /\ ToolUnused
    /\ TrimUnused
    /\ ContentUnused
    /\ RestUnused
    /\ phase = "none"
    /\ ret = -1
    /\ initial = "none"
    /\ trimmed = <<>>
    /\ answers = <<>>
    /\ memo \in {[flavour |-> f, memo_size |-> n, memo |-> {}, memo_order |-> <<>>] :
                   f \in {"Tool", "GeneratorTool"}, n \in 0..MaxMemoSize}
    /\ calls = <<>>

\* tool.memoize_test(test)
MemoizeTest ==
    /\ Len(calls) < MaxMemoCalls
    /\ \E test \in MemoInputs :
         LET r == memoize_test(memo, test)
         IN /\ memo' = r.m
            /\ calls' = Append(calls, [input |-> test, result |-> r.result])
    /\ UNCHANGED outsideMemo

MemoNext == MemoizeTest

SpecMemo == MemoInitial /\ [][MemoNext]_vars

\* the inputs of the calls before call k that returned true, in order
RECURSIVE InsertedBefore(_)
InsertedBefore(k) ==
    IF k <= 1 THEN <<>>
    ELSE IF calls[k - 1].result
         THEN Append(InsertedBefore(k - 1), calls[k - 1].input)
         ELSE InsertedBefore(k - 1)

\* the last n elements of a sequence
LastN(s, n) == SubSeq(s, Max(1, Len(s) - n + 1), Len(s))

\* C9: with memo_size = N >= 1 memoize_test is a FIFO window over distinct
\* inputs: it returns false exactly when the input is among the N inputs
\* most recently inserted (the calls that returned true); a rejected repeat
\* does not refresh the input's position.
C9_MemoFifoWindow ==
    memo.memo_size >= 1 =>
        \A k \in 1..Len(calls) :
            calls[k].result = (calls[k].input \notin Range(LastN(InsertedBefore(k), memo.memo_size)))

\* an input was inserted, repeated and rejected, evicted by N further new
\* inputs and then accepted again
C9_Witness ==
    /\ memo.memo_size = 2
    /\ Len(calls) = 5
    /\ calls[1].result /\ ~calls[2].result /\ calls[2].input = calls[1].input
    /\ calls[3].result /\ calls[4].result
    /\ calls[5].result /\ calls[5].input = calls[1].input

----------------------------------------------------------------------------
(* The annotations of a tree (runtime/Population.hpp) *)

\* RuleSize::operator-
RuleSizeMinus(a, b) == RuleSize(a.depth - b.depth, a.tokens - b.tokens)

\* RuleSize::operator<=
RuleSizeLessEq(a, b) == a.depth <= b.depth /\ a.tokens <= b.tokens

\* RuleSize::max()
RuleSizeMax == RuleSize(INT_MAX, INT_MAX)

\* NodeKey(node, name)
NodeKey(h, node, name) ==
    IF h[node].type \in {"UnparserRule", "UnlexerRule"}
    THEN [name |-> name, type |-> "RuleKey", idx |-> 0]
    ELSE IF h[node].type = "UnparserRuleAlternative"
    THEN [name |-> name, type |-> "AlternativeKey", idx |-> h[node].alt_idx]
    ELSE IF h[node].type = "UnparserRuleQuantifier"
    THEN [name |-> name, type |-> "QuantifierKey", idx |-> h[node].idx]
    ELSE [name |-> name, type |-> "QuantifiedKey", idx |-> h[h[node].parent].idx]

\* the rule nodes that collect_nodes and collect_rules index
IndexedRule(h, root, current) ==
    /\ h[current].type \in {"UnlexerRule", "UnparserRule"}
    /\ current # root
    /\ h[current].name \notin {"<INVALID>", "<ROOT>"}
    /\ (h[current].type # "UnlexerRule" \/ ~h[current].immutable)

\* collect_nodes(current, current_rule_name): the indexed nodes with their
\* keys, in the order of the visit; current_rule_name is <<>> for nullptr
RECURSIVE collect_nodes(_, _, _, _)
RECURSIVE collect_nodes_children(_, _, _, _, _)
collect_nodes(h, root, current, current_rule_name) ==
    LET rule_name == IF h[current].type = "UnparserRule" THEN <<h[current].name>>
                     ELSE current_rule_name
    IN (IF IndexedRule(h, root, current)
        THEN <<[key |-> NodeKey(h, current, h[current].name), node |-> current]>>
        ELSE IF /\ h[current].type \in {"UnparserRuleAlternative", "UnparserRuleQuantifier",
                                        "UnparserRuleQuantified"}
                /\ rule_name # <<>>
             THEN <<[key |-> NodeKey(h, current, rule_name[1]), node |-> current]>>
             ELSE <<>>)
       \o collect_nodes_children(h, root, h[current].children, 1, rule_name)

collect_nodes_children(h, root, kids, i, rule_name) ==
    IF i > Len(kids) THEN <<>>
    ELSE collect_nodes(h, root, kids[i], rule_name)
         \o collect_nodes_children(h, root, kids, i + 1, rule_name)

\* collect_rules(current)
RECURSIVE collect_rules(_, _, _)
RECURSIVE collect_rules_children(_, _, _, _)
collect_rules(h, root, current) ==
    (IF IndexedRule(h, root, current)
     THEN <<[key |-> NodeKey(h, current, h[current].name), node |-> current]>>
     ELSE <<>>)
    \o collect_rules_children(h, root, h[current].children, 1)

collect_rules_children(h, root, kids, i) ==
    IF i > Len(kids) THEN <<>>
    ELSE collect_rules(h, root, kids[i]) \o collect_rules_children(h, root, kids, i + 1)

\* collect_quants(current, current_rule_name)
RECURSIVE collect_quants(_, _, _)
RECURSIVE collect_quants_children(_, _, _, _)
collect_quants(h, current, current_rule_name) ==
    LET rule_name == IF h[current].type = "UnparserRule" THEN <<h[current].name>>
                     ELSE current_rule_name
    IN (IF h[current].type = "UnparserRuleQuantifier" /\ rule_name # <<>>
        THEN <<[key |-> NodeKey(h, current, rule_name[1]), node |-> current]>>
        ELSE <<>>)
       \o collect_quants_children(h, h[current].children, 1, rule_name)

collect_quants_children(h, kids, i, rule_name) ==
    IF i > Len(kids) THEN <<>>
    ELSE collect_quants(h, kids[i], rule_name)
         \o collect_quants_children(h, kids, i + 1, rule_name)

\* std::map<NodeKey, std::vector<Rule*>>: the nodes of each key, in the order
\* they were pushed
ByName(entries) ==
    [key \in {entries[i].key : i \in 1..Len(entries)} |->
        LET sel == SelectSeq(entries, LAMBDA e : e.key = key)
        IN [i \in 1..Len(sel) |-> sel[i].node]]

nodes_by_name(h, root) == ByValue(ByName, collect_nodes(h, root, root, <<>>))

rules_by_name(h, root) == ByValue(ByName, collect_rules(h, root, root))

quants_by_name(h, root) == ByValue(ByName, collect_quants(h, root, <<>>))

\* Annotations::nodes(), rules(), quants(): the nodes of all keys
NodesOf(by_name) == UNION {{by_name[key][i] : i \in 1..Len(by_name[key])} : key \in DOMAIN by_name}

\* collect_info(current, level): the depth and the tokens of current, and
\* node_info_ of the nodes of its subtree
RECURSIVE collect_info(_, _, _)
RECURSIVE collect_info_children(_, _, _, _, _)
RECURSIVE collect_info_loop(_, _, _, _, _)
collect_info(h, current, level) ==
    IF h[current].type # "UnlexerRule"
    THEN ByValue(LAMBDA acc :
                    LET depth == IF h[current].type = "UnparserRule" THEN acc.depth + 1
                                 ELSE acc.depth
                    IN [depth |-> depth, tokens |-> acc.tokens,
                        info |-> (current :> [level |-> level, depth |-> depth,
                                              tokens |-> acc.tokens]) @@ acc.info],
                 collect_info_children(h, h[current].children, 1,
                                       IF h[current].type = "UnparserRule" THEN level + 1
                                       ELSE level,
                                       [depth |-> 0, tokens |-> 0, info |-> <<>>]))
    ELSE [depth |-> h[current].size.depth, tokens |-> h[current].size.tokens,
          info |-> (current :> [level |-> level, depth |-> h[current].size.depth,
                                tokens |-> h[current].size.tokens])]

collect_info_children(h, kids, i, child_level, acc) ==
    ByValue(LAMBDA a : collect_info_loop(h, kids, i, child_level, a), acc)

collect_info_loop(h, kids, i, child_level, acc) ==
    IF i > Len(kids) THEN acc
    ELSE collect_info_children(h, kids, i + 1, child_level,
            ByValue(LAMBDA child : [depth |-> Max(acc.depth, child.depth),
                                    tokens |-> acc.tokens + child.tokens,
                                    info |-> acc.info @@ child.info],
                    collect_info(h, kids[i], child_level)))

\* Annotations::node_info()
node_info(h, root) == collect_info(h, root, 0).info

\* the size of the root as node_info measures it
RootSize(h, root) ==
    ByValue(LAMBDA r : RuleSize(r.depth, r.tokens), collect_info(h, root, 0))

----------------------------------------------------------------------------
(* Tree operations used by the mutators (runtime/Rule.hpp) *)

\* insert_child without node->remove()
insert_child_NoRemove(h, p, idx, n) ==
    [h EXCEPT ![p].children = SubSeq(@, 1, idx) \o <<n>> \o SubSeq(@, idx + 1, Len(@)),
              ![n].parent = p]

\* void ParentRule::insert_child(idx, node)
insert_child(h, p, idx, n) ==
    [RuleRemove(h, n) EXCEPT ![p].children = SubSeq(@, 1, idx) \o <<n>>
                                              \o SubSeq(@, idx + 1, Len(@)),
                             ![n].parent = p]

\* *std::find(children.begin(), children.end(), x) = y
ReplaceFirst(s, x, y) ==
    [i \in 1..Len(s) |-> IF i = Least({j \in 1..Len(s) : s[j] = x}) THEN y ELSE s[i]]

\* Rule* Rule::replace(node), after node->remove()
RuleReplaceNode(h, this, node) ==
    IF h[this].parent # Null /\ node # this
    THEN [h EXCEPT ![h[this].parent].children = ReplaceFirst(@, this, node),
                   ![node].parent = h[this].parent,
                   ![this].parent = Null]
    ELSE h

\* Rule* Rule::replace(node)
replace(h, this, node) ==
    ByValue(LAMBDA heap : RuleReplaceNode(heap, this, node), RuleRemove(h, node))

\* the term of the subtree of n: what the copy constructors copy
RECURSIVE TermOf(_, _)
TermOf(h, n) ==
    Term([h[n] EXCEPT !.parent = Null, !.children = <<>>],
         [i \in 1..Len(h[n].children) |-> TermOf(h, h[n].children[i])])

\* new nodes for a term: the heap with them and the address of their root;
\* allocation takes the next unused address
New(term, h) ==
    [tree |-> Build(term, h, Null,
                    [k \in 1..(Cardinality(DOMAIN h) + TermSize(term)) |-> k]),
     node |-> Cardinality(DOMAIN h) + 1]

\* a copy of the node alone, with the children of the original
clone_Shallow(h, n) ==
    [tree |-> h @@ ((Cardinality(DOMAIN h) + 1) :> [h[n] EXCEPT !.parent = Null]),
     node |-> Cardinality(DOMAIN h) + 1]

\* Rule* clone()
clone(h, n) == ByValue(LAMBDA term : New(term, h), TermOf(h, n))

\* the tokens a TokenIterator yields from node n: the non-empty src of the
\* UnlexerRules of the subtree, left to right
RECURSIVE TokensOf(_, _)
RECURSIVE TokensOfChildren(_, _, _)
TokensOf(h, n) ==
    IF h[n].type = "UnlexerRule"
    THEN IF h[n].src = <<>> THEN <<>> ELSE <<h[n].src>>
    ELSE TokensOfChildren(h, h[n].children, 1)

TokensOfChildren(h, kids, i) ==
    IF i > Len(kids) THEN <<>>
    ELSE TokensOf(h, kids[i]) \o TokensOfChildren(h, kids, i + 1)

\* bool Rule::equalTokens(other)
equalTokens(h, n, other) == TokensOf(h, n) = TokensOf(h, other)

\* the nodes on the parent chain of n
RECURSIVE Ancestors(_, _)
Ancestors(h, n) ==
    IF h[n].parent = Null THEN {} ELSE {h[n].parent} \cup Ancestors(h, h[n].parent)

\* Individual(root): the <ROOT> node and the tree under it, in new nodes
Individual(term, h) ==
    ByValue(LAMBDA ind : [tree |-> ind.tree, root |-> ind.tree[ind.node].children[1]],
            New(Term(UnparserRule("<ROOT>"), <<term>>), h))

----------------------------------------------------------------------------
(* The operations of Rule and ParentRule on nodes a caller holds: add_child,
   insert_child, replace and remove in any order. A caller passes a node that
   is neither the new parent nor one of its ancestors, and an index that
   children.insert accepts *)

\* number of nodes the caller holds
MaxTreeNodes == 4

\* the nodes after their construction: no parent, no children
ForestNodes == [n \in 1..MaxTreeNodes |-> UnparserRule("S")]

\* the last operation: its name, the node it moved, the parent the node had
\* before and the parent it has after
Operation(name, node, h, after) ==
    [name |-> name, node |-> node, from |-> h[node].parent, to |-> after[node].parent]

ForestInitial ==
    /\ TrimUnused
    /\ ContentUnused
    /\ MemoUnused
    /\ ToolUnused
    /\ FuzzUnused
    /\ GeneratorUnused
    /\ PopulationUnused
    /\ phase = "none"
    /\ ret = -1
    /\ initial = "none"
    /\ trimmed = <<>>
    /\ answers = <<>>
    /\ forest = [tree |-> ForestNodes, op |-> [name |-> "", node |-> Null,
                                               from |-> Null, to |-> Null]]

\* the variables the tree operations leave alone
outsideForest == <<trimVars, contentVars, memoVars, toolVars, fuzz, gen, population>>

\* parent->add_child(node)
AddChild ==
    /\ \E p \in DOMAIN forest.tree : \E node \in DOMAIN forest.tree :
         /\ node \notin {p} \cup Ancestors(forest.tree, p)
         /\ \E after \in {add_child(forest.tree, p, node)} :
              forest' = [tree |-> after, op |-> Operation("add_child", node, forest.tree, after)]
    /\ UNCHANGED outsideForest

\* parent->insert_child(idx, node); idx is at most the number of the children
\* left when node is removed
InsertChild ==
    /\ \E p \in DOMAIN forest.tree : \E node \in DOMAIN forest.tree :
         /\ node \notin {p} \cup Ancestors(forest.tree, p)
         /\ \E idx \in 0..Len(RuleRemove(forest.tree, node)[p].children) :
            \E after \in {insert_child(forest.tree, p, idx, node)} :
              forest' = [tree |-> after,
                         op |-> Operation("insert_child", node, forest.tree, after)]
    /\ UNCHANGED outsideForest

\* this->replace(node)
Replace ==
    /\ \E this \in DOMAIN forest.tree : \E node \in DOMAIN forest.tree :
         /\ node \notin Ancestors(forest.tree, this)
         /\ \E after \in {replace(forest.tree, this, node)} :
              forest' = [tree |-> after, op |-> Operation("replace", node, forest.tree, after)]
    /\ UNCHANGED outsideForest

\* node->remove()
Remove ==
    /\ \E node \in DOMAIN forest.tree :
         \E after \in {RuleRemove(forest.tree, node)} :
              forest' = [tree |-> after, op |-> Operation("remove", node, forest.tree, after)]
    /\ UNCHANGED outsideForest

ForestNext ==
    \/ AddChild
    \/ InsertChild
    \/ Replace
    \/ Remove

SpecTree == ForestInitial /\ [][ForestNext]_vars

\* the number of times node occurs in the children of p
Occurrences(h, p, node) ==
    Cardinality({i \in 1..Len(h[p].children) : h[p].children[i] = node})

\* among the nodes live: every node with a parent occurs exactly once in the
\* children of its parent, and a node occurs in the children of no node
\* other than its parent
ParentConsistent(h, live) ==
    /\ \A n \in live : h[n].parent # Null =>
         /\ h[n].parent \in live
         /\ Occurrences(h, h[n].parent, n) = 1
    /\ \A m \in live : \A i \in 1..Len(h[m].children) :
         /\ h[m].children[i] \in live
         /\ h[h[m].children[i]].parent = m

----------------------------------------------------------------------------
(* The grammar of the generator: the code generated from it is
   generator._rule_fns and generator_factory._rule_sizes

     S : A C | B B ;      A : 'a' | D | C ;      C : A ;      D : 'd' ;
     B : ('b' | 'c')* ;   at most three repetitions
*)

Rule(name, kids) == Term(UnparserRule(name), kids)

Alternative(alt_idx, idx, kids) == Term(UnparserRuleAlternative(alt_idx, idx), kids)

\* a quantifier with the given bounds and a quantified child for each item
QuantifierOf(idx, start, stop, items) ==
    Term(UnparserRuleQuantifier(idx, start, stop),
         [k \in 1..Len(items) |-> Term(UnparserRuleQuantified, items[k])])

\* A by its alternative idx
DeriveA(idx) ==
    Rule("A", <<Alternative(0, idx,
                            IF idx = 0 THEN <<Token("a")>>
                            ELSE IF idx = 1 THEN <<Rule("D", <<Token("d")>>)>>
                            ELSE <<Rule("C", <<Rule("A", <<Alternative(0, 0, <<Token("a")>>)>>)>>)>>)>>)

\* B with the given tokens, one repetition each
DeriveB(names) ==
    Rule("B", <<QuantifierOf(0, 0, 3,
                             [k \in 1..Len(names) |->
                                <<Alternative(0, IF names[k] = "b" THEN 0 ELSE 1,
                                              <<Token(names[k])>>)>>])>>)

\* the trees the rule functions of the generator build, by rule name
Derivations ==
    [a |-> {Token("a")}, b |-> {Token("b")}, c |-> {Token("c")}, d |-> {Token("d")},
     D |-> {Rule("D", <<Token("d")>>)},
     A |-> {DeriveA(0), DeriveA(1), DeriveA(2)},
     C |-> {Rule("C", <<DeriveA(0)>>), Rule("C", <<DeriveA(1)>>)},
     B |-> {DeriveB(<<>>), DeriveB(<<"b">>), DeriveB(<<"c", "b">>)}]

\* generator_factory._rule_sizes: the minimal size of each rule
_rule_sizes ==
    [a |-> RuleSize(1, 1), b |-> RuleSize(1, 1), c |-> RuleSize(1, 1), d |-> RuleSize(1, 1),
     D |-> RuleSize(2, 1), A |-> RuleSize(2, 1), C |-> RuleSize(3, 1), B |-> RuleSize(1, 0)]

\* the size of the tree of a term
TermRuleSize(term) == ByValue(LAMBDA new : RootSize(new.tree, new.node), New(term, <<>>))

\* Rule* generate(rule_name, reserve): a tree of the rule within limit -
\* reserve; when no tree of the rule fits, the generator raises its limit and
\* builds a minimal one; nullptr for an unknown rule
generate(h, rule_name, limit, reserve) ==
    IF rule_name \notin DOMAIN Derivations THEN {[tree |-> h, node |-> Null]}
    ELSE LET fits == {term \in Derivations[rule_name] :
                        RuleSizeLessEq(TermRuleSize(term), RuleSizeMinus(limit, reserve))}
             least == {term \in Derivations[rule_name] :
                        TermRuleSize(term) = _rule_sizes[rule_name]}
         IN {New(term, h) : term \in IF fits # {} THEN fits ELSE least}

----------------------------------------------------------------------------
(* The creators of Tool (tool/Tool.hpp). A creator gets the tool t (tree,
   freed, root, donor, limit) and yields the outcomes its random choices
   allow: the tree, the freed nodes and the returned root, Null for nullptr *)

\* largest number of mutate and recombine calls on a tree
MaxMutations == 2
\* largest depth of a finite limit
MaxLimitDepth == 5
\* largest token count of a finite limit
MaxLimitTokens == 4

Outcome(h, freed, result) == [tree |-> h, freed |-> freed, result |-> result]

\* return nullptr
Failed(t) == Outcome(t.tree, t.freed, Null)

\* the children of a set of nodes
ChildrenOf(h, nodes) == UNION {{h[n].children[i] : i \in 1..Len(h[n].children)} : n \in nodes}

\* Rule* regenerate_rule(individual)
regenerate_rule(t) ==
    UNION {
        LET root_tokens == info[t.root].tokens
            options == {node \in NodesOf(rules) :
                          /\ t.tree[node].name \in DOMAIN _rule_sizes
                          /\ info[node].level + _rule_sizes[t.tree[node].name].depth
                               < t.limit.depth
                          /\ root_tokens - info[node].tokens
                               + _rule_sizes[t.tree[node].name].tokens < t.limit.tokens}
        IN IF options = {} THEN {Failed(t)}
           ELSE UNION {
                  {Outcome(replace(new.tree, mutated_node, new.node),
                           t.freed \cup Subtree(t.tree, mutated_node), t.root)
                     : new \in generate(t.tree, t.tree[mutated_node].name, t.limit,
                                        RuleSize(info[mutated_node].level,
                                                 root_tokens - info[mutated_node].tokens))}
                  : mutated_node \in options}
        : info \in {node_info(t.tree, t.root)}, rules \in {rules_by_name(t.tree, t.root)}}

\* delete_quantified that also takes a child of a quantifier at its start
delete_quantified_AtStart(t) ==
    UNION {
        LET options == ChildrenOf(t.tree, {q \in NodesOf(quants) :
                                             Len(t.tree[q].children) >= t.tree[q].start})
        IN IF options = {} THEN {Failed(t)}
           ELSE {Outcome(RuleRemove(t.tree, removed_node),
                         t.freed \cup Subtree(t.tree, removed_node), t.root)
                   : removed_node \in options}
        : quants \in {quants_by_name(t.tree, t.root)}}

\* delete_quantified that removes a child of a quantifier and gives nullptr
\* when the quantifier has no child left
delete_quantified_ThenCheck(t) ==
    UNION {
        LET options == ChildrenOf(t.tree, {q \in NodesOf(quants) :
                                             Len(t.tree[q].children) > t.tree[q].start})
        IN IF options = {} THEN {Failed(t)}
           ELSE {Outcome(RuleRemove(t.tree, removed_node),
                         t.freed \cup Subtree(t.tree, removed_node),
                         IF Len(t.tree[t.tree[removed_node].parent].children) = 1
                         THEN Null ELSE t.root)
                   : removed_node \in options}
        : quants \in {quants_by_name(t.tree, t.root)}}

\* Rule* delete_quantified(individual)
delete_quantified(t) ==
    UNION {
        LET options == ChildrenOf(t.tree, {q \in NodesOf(quants) :
                                             Len(t.tree[q].children) > t.tree[q].start})
        IN IF options = {} THEN {Failed(t)}
           ELSE {Outcome(RuleRemove(t.tree, removed_node),
                         t.freed \cup Subtree(t.tree, removed_node), t.root)
                   : removed_node \in options}
        : quants \in {quants_by_name(t.tree, t.root)}}

\* the loop of replicate_quantified: repeat times insert a clone of
\* node_to_repeat at a random position of its parent
RECURSIVE Replicate(_, _, _)
Replicate(h, node_to_repeat, repeat) ==
    IF repeat = 0 THEN {h}
    ELSE UNION {Replicate(insert_child(c.tree, h[node_to_repeat].parent, pos, c.node),
                          node_to_repeat, repeat - 1)
                  : pos \in 0..(Len(h[h[node_to_repeat].parent].children) - 1),
                    c \in {clone(h, node_to_repeat)}}

\* Rule* replicate_quantified(individual)
replicate_quantified(t) ==
    UNION {
        LET root_tokens == info[t.root].tokens
            options == {child \in ChildrenOf(t.tree, {q \in NodesOf(quants) :
                                                        t.tree[q].stop > Len(t.tree[q].children)}) :
                          /\ info[child].tokens > 0
                          /\ root_tokens + info[child].tokens <= t.limit.tokens}
        IN IF options = {} THEN {Failed(t)}
           ELSE UNION {
                  LET max_repeat == IF t.limit.tokens # RuleSizeMax.tokens
                                    THEN (t.limit.tokens - root_tokens)
                                           \div info[node_to_repeat].tokens
                                    ELSE 1
                  IN UNION {
                       {Outcome(h, t.freed, t.root)
                          : h \in Replicate(t.tree, node_to_repeat, repeat)}
                       : repeat \in IF max_repeat > 1 THEN 1..max_repeat ELSE {1}}
                  : node_to_repeat \in options}
        : info \in {node_info(t.tree, t.root)}, quants \in {quants_by_name(t.tree, t.root)}}

\* Rule* shuffle_quantifieds(individual)
shuffle_quantifieds(t) ==
    UNION {
        LET options == {q \in NodesOf(quants) : Len(t.tree[q].children) > 1}
        IN IF options = {} THEN {Failed(t)}
           ELSE UNION {
                  {Outcome([t.tree EXCEPT ![node_to_shuffle].children =
                                               [i \in 1..Len(@) |-> @[order[i]]]],
                           t.freed, t.root)
                     : order \in Permutations(1..Len(t.tree[node_to_shuffle].children))}
                  : node_to_shuffle \in options}
        : quants \in {quants_by_name(t.tree, t.root)}}

\* the loop of hoist_rule over the parents of rule_node: the nearest one with
\* the name of rule_node that is not root, Null if there is none
RECURSIVE HoistParent(_, _, _, _)
HoistParent(h, root, rule_node, parent) ==
    IF parent = Null THEN Null
    ELSE IF h[parent].name = h[rule_node].name /\ parent # root THEN parent
    ELSE HoistParent(h, root, rule_node, h[parent].parent)

\* Rule* hoist_rule(individual)
hoist_rule(t) ==
    UNION {
        LET options == {rule_node \in NodesOf(rules) :
                          HoistParent(t.tree, t.root, rule_node, t.tree[rule_node].parent) # Null}
        IN IF options = {} THEN {Failed(t)}
           ELSE {LET parent == HoistParent(t.tree, t.root, rule_node,
                                            t.tree[rule_node].parent)
                 IN Outcome(replace(t.tree, parent, rule_node),
                            t.freed \cup (Subtree(t.tree, parent) \ Subtree(t.tree, rule_node)),
                            t.root)
                   : rule_node \in options}
        : rules \in {rules_by_name(t.tree, t.root)}}

\* the pairs of a std::map of vectors that the loops over two shuffled
\* vectors can visit first: two different nodes of a key with several nodes
PairsOf(by_name) ==
    UNION {{p \in {by_name[key][i] : i \in 1..Len(by_name[key])}
                  \X {by_name[key][i] : i \in 1..Len(by_name[key])} : p[1] # p[2]}
             : key \in {k \in DOMAIN by_name : Len(by_name[k]) > 1}}

\* swap_local_nodes skips the pair for its depth
SwapTooDeep(info, limit, first_node, second_node) ==
    /\ info[first_node].level + info[second_node].depth > limit.depth
    /\ info[second_node].level + info[first_node].depth > limit.depth

\* the two nodes exchange their places in the children of their parents
SwapNodes(h, first_node, second_node) ==
    ByValue(LAMBDA h1 :
              ByValue(LAMBDA h2 : [h2 EXCEPT ![first_node].parent = h[second_node].parent,
                                             ![second_node].parent = h[first_node].parent],
                      [h1 EXCEPT ![h[second_node].parent].children =
                                      ReplaceFirst(@, second_node, first_node)]),
            [h EXCEPT ![h[first_node].parent].children =
                           ReplaceFirst(@, first_node, second_node)])

\* swap_local_nodes that walks the parent chain of the first node only
swap_local_nodes_OneChain(t) ==
    UNION {
        LET pairs == {p \in PairsOf(nodes) :
                        /\ ~SwapTooDeep(info, t.limit, p[1], p[2])
                        /\ ~equalTokens(t.tree, p[1], p[2])
                        /\ p[2] \notin Ancestors(t.tree, p[1])}
        IN IF pairs = {} THEN {Failed(t)}
           ELSE {Outcome(SwapNodes(t.tree, p[1], p[2]), t.freed, t.root) : p \in pairs}
        : info \in {node_info(t.tree, t.root)}, nodes \in {nodes_by_name(t.tree, t.root)}}

\* Rule* swap_local_nodes(individual)
swap_local_nodes(t) ==
    UNION {
        LET pairs == {p \in PairsOf(nodes) :
                        /\ ~SwapTooDeep(info, t.limit, p[1], p[2])
                        /\ ~equalTokens(t.tree, p[1], p[2])
                        /\ p[2] \notin Ancestors(t.tree, p[1])
                        /\ p[1] \notin Ancestors(t.tree, p[2])}
        IN IF pairs = {} THEN {Failed(t)}
           ELSE {Outcome(SwapNodes(t.tree, p[1], p[2]), t.freed, t.root) : p \in pairs}
        : info \in {node_info(t.tree, t.root)}, nodes \in {nodes_by_name(t.tree, t.root)}}

\* the loop of insert_local_node over the children of the donor quantifier:
\* the first one that fits, Null if there is none
RECURSIVE DonorQuantified(_, _, _, _, _, _)
DonorQuantified(info, limit, root_tokens, recipient_node, kids, i) ==
    IF i > Len(kids) THEN Null
    ELSE IF /\ info[recipient_node].level + info[kids[i]].depth <= limit.depth
            /\ root_tokens + info[kids[i]].tokens <= limit.tokens
         THEN kids[i]
         ELSE DonorQuantified(info, limit, root_tokens, recipient_node, kids, i + 1)

\* Rule* insert_local_node(individual)
insert_local_node(t) ==
    UNION {
        LET Donor(p) == DonorQuantified(info, t.limit, info[t.root].tokens, p[1],
                                        t.tree[p[2]].children, 1)
            pairs == {p \in PairsOf(quants) :
                        /\ ~(Len(t.tree[p[1]].children) >= t.tree[p[1]].stop)
                        /\ Donor(p) # Null}
        IN IF pairs = {} THEN {Failed(t)}
           ELSE UNION {
                  {Outcome(insert_child(c.tree, p[1], pos, c.node), t.freed, t.root)
                     : pos \in IF Len(t.tree[p[1]].children) > 0
                               THEN 0..(Len(t.tree[p[1]].children) - 1) ELSE {0},
                       c \in {clone(t.tree, Donor(p))}}
                  : p \in pairs}
        : info \in {node_info(t.tree, t.root)}, quants \in {quants_by_name(t.tree, t.root)}}

\* the pairs of a recipient node and a donor node with a common key
CommonPairs(recipient_lookup, donor_lookup) ==
    UNION {{recipient_lookup[key][i] : i \in 1..Len(recipient_lookup[key])}
           \X {donor_lookup[key][i] : i \in 1..Len(donor_lookup[key])}
             : key \in DOMAIN recipient_lookup \cap DOMAIN donor_lookup}

\* replace_node that accepts a tree of exactly limit.tokens tokens
replace_node_AtLimit(t) ==
    UNION {
        LET recipient_root_tokens == recipient_node_info[t.root].tokens
            pairs == {p \in CommonPairs(recipient_lookup, donor_lookup) :
                        /\ t.tree[p[1]].parent # Null
                        /\ recipient_node_info[p[1]].level + donor_node_info[p[2]].depth
                             <= t.limit.depth
                        /\ recipient_root_tokens - recipient_node_info[p[1]].tokens
                             + donor_node_info[p[2]].tokens <= t.limit.tokens}
        IN IF pairs = {} THEN {Failed(t)}
           ELSE UNION {
                  {Outcome(replace(c.tree, p[1], c.node),
                           t.freed \cup Subtree(t.tree, p[1]), t.root)
                     : c \in {clone(t.tree, p[2])}}
                  : p \in pairs}
        : recipient_node_info \in {node_info(t.tree, t.root)},
          donor_node_info \in {node_info(t.tree, t.donor)},
          recipient_lookup \in {nodes_by_name(t.tree, t.root)},
          donor_lookup \in {nodes_by_name(t.tree, t.donor)}}

\* Rule* replace_node(recipient_individual, donor_individual)
replace_node(t) ==
    UNION {
        LET recipient_root_tokens == recipient_node_info[t.root].tokens
            pairs == {p \in CommonPairs(recipient_lookup, donor_lookup) :
                        /\ t.tree[p[1]].parent # Null
                        /\ recipient_node_info[p[1]].level + donor_node_info[p[2]].depth
                             <= t.limit.depth
                        /\ recipient_root_tokens - recipient_node_info[p[1]].tokens
                             + donor_node_info[p[2]].tokens < t.limit.tokens}
        IN IF pairs = {} THEN {Failed(t)}
           ELSE UNION {
                  {Outcome(replace(c.tree, p[1], c.node),
                           t.freed \cup Subtree(t.tree, p[1]), t.root)
                     : c \in {clone(t.tree, p[2])}}
                  : p \in pairs}
        : recipient_node_info \in {node_info(t.tree, t.root)},
          donor_node_info \in {node_info(t.tree, t.donor)},
          recipient_lookup \in {nodes_by_name(t.tree, t.root)},
          donor_lookup \in {nodes_by_name(t.tree, t.donor)}}

\* insert_quantified that moves the donor node itself into the recipient
insert_quantified_Move(t) ==
    UNION {
        LET recipient_root_tokens == recipient_node_info[t.root].tokens
            pairs == {p \in UNION {{recipient_quants[key][i] : i \in 1..Len(recipient_quants[key])}
                                   \X ChildrenOf(t.tree, {donor_quants[key][i] :
                                                            i \in 1..Len(donor_quants[key])})
                                     : key \in DOMAIN recipient_quants \cap DOMAIN donor_quants} :
                        /\ Len(t.tree[p[1]].children) < t.tree[p[1]].stop
                        /\ recipient_node_info[p[1]].level + donor_node_info[p[2]].depth
                             <= t.limit.depth
                        /\ recipient_root_tokens + donor_node_info[p[2]].tokens
                             < t.limit.tokens}
        IN IF pairs = {} THEN {Failed(t)}
           ELSE UNION {
                  {Outcome(insert_child(t.tree, p[1], pos, p[2]), t.freed, t.root)
                     : pos \in IF Len(t.tree[p[1]].children) > 0
                               THEN 0..(Len(t.tree[p[1]].children) - 1) ELSE {0}}
                  : p \in pairs}
        : recipient_node_info \in {node_info(t.tree, t.root)},
          donor_node_info \in {node_info(t.tree, t.donor)},
          recipient_quants \in {quants_by_name(t.tree, t.root)},
          donor_quants \in {quants_by_name(t.tree, t.donor)}}

\* Rule* insert_quantified(recipient_individual, donor_individual)
insert_quantified(t) ==
    UNION {
        LET recipient_root_tokens == recipient_node_info[t.root].tokens
            pairs == {p \in UNION {{recipient_quants[key][i] : i \in 1..Len(recipient_quants[key])}
                                   \X ChildrenOf(t.tree, {donor_quants[key][i] :
                                                            i \in 1..Len(donor_quants[key])})
                                     : key \in DOMAIN recipient_quants \cap DOMAIN donor_quants} :
                        /\ Len(t.tree[p[1]].children) < t.tree[p[1]].stop
                        /\ recipient_node_info[p[1]].level + donor_node_info[p[2]].depth
                             <= t.limit.depth
                        /\ recipient_root_tokens + donor_node_info[p[2]].tokens
                             < t.limit.tokens}
        IN IF pairs = {} THEN {Failed(t)}
           ELSE UNION {
                  {Outcome(insert_child(c.tree, p[1], pos, c.node), t.freed, t.root)
                     : pos \in IF Len(t.tree[p[1]].children) > 0
                               THEN 0..(Len(t.tree[p[1]].children) - 1) ELSE {0},
                       c \in {clone(t.tree, p[2])}}
                  : p \in pairs}
        : recipient_node_info \in {node_info(t.tree, t.root)},
          donor_node_info \in {node_info(t.tree, t.donor)},
          recipient_quants \in {quants_by_name(t.tree, t.root)},
          donor_quants \in {quants_by_name(t.tree, t.donor)}}

----------------------------------------------------------------------------
(* Mutation and recombination of a tree: mutate and recombine call
   create_tree, which calls the creators of the tool *)

\* the mutators a Tool registers with mutate = true and unrestricted = false
Mutators ==
    {"regenerate_rule", "delete_quantified", "replicate_quantified", "shuffle_quantifieds",
     "hoist_rule", "swap_local_nodes", "insert_local_node"}

\* the recombiners a Tool registers with recombine = true
Recombiners == {"replace_node", "insert_quantified"}

\* the individuals of the tool: the tree to mutate and the tree of the donor
ToolTrees ==
    { <<Rule("S", <<Alternative(0, 0, <<DeriveA(1), Rule("C", <<DeriveA(0)>>)>>)>>),
        Rule("S", <<Alternative(0, 0, <<DeriveA(0), Rule("C", <<DeriveA(1)>>)>>)>>)>>,
      <<Rule("S", <<Alternative(0, 0, <<DeriveA(2), Rule("C", <<DeriveA(0)>>)>>)>>),
        Rule("S", <<Alternative(0, 1, <<DeriveB(<<"c">>), DeriveB(<<>>)>>)>>)>>,
      <<Rule("S", <<Alternative(0, 0, <<DeriveA(0), Rule("C", <<DeriveA(0)>>)>>)>>),
        Rule("S", <<Alternative(0, 0, <<DeriveA(1), Rule("C", <<DeriveA(1)>>)>>)>>)>>,
      <<Rule("S", <<Alternative(0, 1, <<DeriveB(<<"b", "c">>), DeriveB(<<>>)>>)>>),
        Rule("S", <<Alternative(0, 1, <<DeriveB(<<"c">>), DeriveB(<<>>)>>)>>)>>,
      <<Rule("S", <<Alternative(0, 1, <<DeriveB(<<"b", "c", "b">>), DeriveB(<<"c">>)>>)>>),
        Rule("S", <<Alternative(0, 1, <<DeriveB(<<"b">>), DeriveB(<<"c">>)>>)>>)>>,
      <<Rule("A", <<>>),
        Rule("S", <<Alternative(0, 0, <<DeriveA(0), Rule("C", <<DeriveA(1)>>)>>)>>)>> }

\* the limits of the tool
Limits ==
    {RuleSize(MaxLimitDepth - 1, MaxLimitTokens - 2), RuleSize(MaxLimitDepth, MaxLimitTokens),
     RuleSizeMax}

ToolInitial ==
    /\ TrimUnused
    /\ ContentUnused
    /\ MemoUnused
    /\ RestUnused
    /\ phase = "none"
    /\ ret = -1
    /\ initial = "none"
    /\ trimmed = <<>>
    /\ answers = <<>>
    /\ \E trees \in ToolTrees : \E limit \in Limits :
       \E individual1 \in {Individual(trees[1], <<>>)} :
       \E individual2 \in {Individual(trees[2], individual1.tree)} :
         tool = [tree |-> individual2.tree, freed |-> {}, root |-> individual1.root,
                 donor |-> individual2.root, limit |-> limit,
                 mutators |-> Mutators, recombiners |-> Recombiners,
                 last_mutator |-> "", pc |-> "idle", creators |-> {}, returned |-> Null,
                 calls |-> 0, invoked |-> 0, failed |-> {}, entry |-> individual2.tree]
    /\ created = [creator |-> "", root |-> Null,
                  before |-> RuleSize(0, 0), after |-> RuleSize(0, 0)]

\* the entry of create_tree(creators, individual1, individual2): creators is
\* a copy of the registered map; with no creator the loop is skipped and the
\* root of individual1 is returned
Create(registered) ==
    /\ tool.calls < MaxMutations
    /\ tool' = [tool EXCEPT !.creators = registered,
                            !.pc = IF registered = {} THEN "idle" ELSE "create",
                            !.returned = IF registered = {} THEN tool.root ELSE Null,
                            !.calls = @ + 1, !.invoked = 0, !.failed = {},
                            !.entry = tool.tree]
    /\ UNCHANGED <<created, outsideTool>>

\* mutate that runs the mutators on a root without children as well
mutate_AlwaysCreate ==
    /\ tool.pc = "idle"
    /\ Create(tool.mutators)

\* Rule* mutate(individual): a root without children is replaced by a tree
\* that generate builds for its name and is deleted, and the new root of the
\* individual is returned (the name is one the generator knows); for a root
\* with children create_tree runs on a copy of the mutators
mutate ==
    /\ tool.pc = "idle"
    /\ IF Len(tool.tree[tool.root].children) = 0
       THEN /\ tool.calls < MaxMutations
            /\ \E new \in generate(tool.tree, tool.tree[tool.root].name, tool.limit,
                                    RuleSize(0, 0)) :
                 /\ new.node # Null
                 /\ tool' = [tool EXCEPT !.tree = replace(new.tree, tool.root, new.node),
                                         !.freed = @ \cup {tool.root},
                                         !.root = new.node,
                                         !.returned = new.node,
                                         !.creators = {},
                                         !.calls = @ + 1, !.invoked = 0, !.failed = {},
                                         !.entry = tool.tree]
            /\ UNCHANGED <<created, outsideTool>>
       ELSE Create(tool.mutators)

\* Rule* recombine(recipient_individual, donor_individual)
recombine ==
    /\ tool.pc = "idle"
    /\ Create(tool.recombiners)

\* create_tree without the return of the root of individual1 after the loop
create_tree_NoFallback(creator, r) ==
    \E before \in {RootSize(tool.tree, tool.root)} :
    \E after \in {RootSize(r.tree, tool.root)} :
    \E creators \in {IF r.result = Null THEN tool.creators \ {creator} ELSE tool.creators} :
    \E done \in {r.result # Null \/ creators = {}} :
      /\ tool' = [tool EXCEPT !.tree = r.tree, !.freed = r.freed,
                              !.last_mutator = creator,
                              !.creators = IF done THEN {} ELSE creators,
                              !.pc = IF done THEN "idle" ELSE "create",
                              !.returned = r.result,
                              !.invoked = @ + 1,
                              !.failed = IF r.result = Null THEN @ \cup {creator} ELSE @]
      /\ created' = [creator |-> creator, root |-> r.result,
                     before |-> before, after |-> after]

\* create_tree without creators.erase
create_tree_KeepCreator(creator, r) ==
    \E before \in {RootSize(tool.tree, tool.root)} :
    \E after \in {RootSize(r.tree, tool.root)} :
    \E done \in {r.result # Null} :
      /\ tool' = [tool EXCEPT !.tree = r.tree, !.freed = r.freed,
                              !.last_mutator = creator,
                              !.creators = IF done THEN {} ELSE tool.creators,
                              !.pc = IF done THEN "idle" ELSE "create",
                              !.returned = r.result,
                              !.invoked = @ + 1,
                              !.failed = IF r.result = Null THEN @ \cup {creator} ELSE @]
      /\ created' = [creator |-> creator, root |-> r.result,
                     before |-> before, after |-> after]

\* one round of the loop of create_tree: the selected creator was called and
\* gave r. A tree ends the loop and is returned; after nullptr the creator is
\* erased from creators, and when creators is empty the loop ends and the
\* root of individual1 is returned. created records the call of the creator
\* with the size of the root before and after it; invoked counts the calls
\* of creators in this call of create_tree and failed holds the creators
\* that gave nullptr in it
create_tree(creator, r) ==
    \E before \in {RootSize(tool.tree, tool.root)} :
    \E after \in {RootSize(r.tree, tool.root)} :
    \E creators \in {IF r.result = Null THEN tool.creators \ {creator} ELSE tool.creators} :
    \E done \in {r.result # Null \/ creators = {}} :
      /\ tool' = [tool EXCEPT !.tree = r.tree, !.freed = r.freed,
                              !.last_mutator = creator,
                              !.creators = IF done THEN {} ELSE creators,
                              !.pc = IF done THEN "idle" ELSE "create",
                              !.returned = IF r.result # Null THEN r.result
                                           ELSE IF done THEN tool.root ELSE Null,
                              !.invoked = @ + 1,
                              !.failed = IF r.result = Null THEN @ \cup {creator} ELSE @]
      /\ created' = [creator |-> creator, root |-> r.result,
                     before |-> before, after |-> after]

\* select_creator picked the creator
Selected(creator) == tool.pc = "create" /\ creator \in tool.creators

RegenerateRule ==
    /\ Selected("regenerate_rule")
    /\ \E r \in regenerate_rule(tool) : create_tree("regenerate_rule", r)
    /\ UNCHANGED outsideTool

DeleteQuantified ==
    /\ Selected("delete_quantified")
    /\ \E r \in delete_quantified(tool) : create_tree("delete_quantified", r)
    /\ UNCHANGED outsideTool

ReplicateQuantified ==
    /\ Selected("replicate_quantified")
    /\ \E r \in replicate_quantified(tool) : create_tree("replicate_quantified", r)
    /\ UNCHANGED outsideTool

ShuffleQuantifieds ==
    /\ Selected("shuffle_quantifieds")
    /\ \E r \in shuffle_quantifieds(tool) : create_tree("shuffle_quantifieds", r)
    /\ UNCHANGED outsideTool

HoistRule ==
    /\ Selected("hoist_rule")
    /\ \E r \in hoist_rule(tool) : create_tree("hoist_rule", r)
    /\ UNCHANGED outsideTool

SwapLocalNodes ==
    /\ Selected("swap_local_nodes")
    /\ \E r \in swap_local_nodes(tool) : create_tree("swap_local_nodes", r)
    /\ UNCHANGED outsideTool

InsertLocalNode ==
    /\ Selected("insert_local_node")
    /\ \E r \in insert_local_node(tool) : create_tree("insert_local_node", r)
    /\ UNCHANGED outsideTool

ReplaceNode ==
    /\ Selected("replace_node")
    /\ \E r \in replace_node(tool) : create_tree("replace_node", r)
    /\ UNCHANGED outsideTool

InsertQuantified ==
    /\ Selected("insert_quantified")
    /\ \E r \in insert_quantified(tool) : create_tree("insert_quantified", r)
    /\ UNCHANGED outsideTool

ToolNext ==
    \/ mutate
    \/ recombine
    \/ RegenerateRule
    \/ DeleteQuantified
    \/ ReplicateQuantified
    \/ ShuffleQuantifieds
    \/ HoistRule
    \/ SwapLocalNodes
    \/ InsertLocalNode
    \/ ReplaceNode
    \/ InsertQuantified

SpecTool == ToolInitial /\ [][ToolNext]_vars

\* C10: budget safety (P6): when the tree satisfies root (depth, tokens) <=
\* limit and one of the grammar-respecting mutators (regenerate_rule,
\* delete_quantified, replicate_quantified, shuffle_quantifieds, hoist_rule,
\* swap_local_nodes, insert_local_node) returns a tree, the returned tree
\* satisfies root (depth, tokens) <= limit too, as node_info measures it.
C10_BudgetSafety ==
    (/\ created.creator \in Mutators
     /\ created.root # Null
     /\ RuleSizeLessEq(created.before, tool.limit))
        => RuleSizeLessEq(created.after, tool.limit)

\* the quantifier nodes of the tree whose number of children is outside
\* start..stop
OutOfBounds(h, root) ==
    {n \in Subtree(h, root) :
        /\ h[n].type = "UnparserRuleQuantifier"
        /\ ~(h[n].start <= Len(h[n].children) /\ Len(h[n].children) <= h[n].stop)}

\* C11: quantifier bounds (P5): with every quantifier of the tree holding
\* start <= |children| <= stop before, the bounds hold in the tree after each
\* call of a grammar-respecting creator (the seven mutators, replace_node and
\* insert_quantified).
C11_QuantifierBounds == OutOfBounds(tool.tree, tool.root) = {}

\* the nodes of the tool that are allocated and not freed
Live == DOMAIN tool.tree \ tool.freed

\* the nodes reached from the nodes seen through children
RECURSIVE Reachable(_, _)
Reachable(h, seen) ==
    IF ChildrenOf(h, seen) \subseteq seen THEN seen
    ELSE Reachable(h, seen \cup ChildrenOf(h, seen))

\* the places of the children lists of the nodes where n stands
EdgesTo(h, nodes, n) ==
    {e \in UNION {{m} \X (1..Len(h[m].children)) : m \in nodes} :
        h[e[1]].children[e[2]] = n}

\* the nodes live form trees under the roots among them: every node is
\* reached from a root, a root is the child of no node and any other node
\* is a child at exactly one place, so there is no cycle and exactly one
\* path from a root to a node
TreeShape(h, live) ==
    \A reached \in {Reachable(h, {n \in live : h[n].parent = Null})} :
        /\ reached = live
        /\ \A n \in reached :
             Cardinality(EdgesTo(h, reached, n)) = IF h[n].parent = Null THEN 0 ELSE 1

AllNull ==
    /\ tool.pc = "idle"
    /\ tool.calls > 0
    /\ tool.invoked > 0
    /\ created.root = Null

RegisteredOf(t) ==
    IF t.invoked > 0 /\ created.creator \in t.recombiners THEN t.recombiners
    ELSE IF t.invoked = 0 /\ t.pc = "create" THEN t.creators
    ELSE t.mutators

\* C15: a creator that returns nullptr is disabled for the rest of that
\* create_tree call only: no creator is invoked twice in a call (every
\* invocation but a last successful one gave nullptr, each by a different
\* creator, and none of them is left to select), a call makes at most as many
\* invocations as creators are registered and has ended when it made that
\* many, the maps registered in the Tool are never modified and every call
\* starts with all the creators of its map.
C15_NullDisablesCreator ==
    /\ tool.mutators = Mutators
    /\ tool.recombiners = Recombiners
    /\ tool.creators \cap tool.failed = {}
    /\ tool.invoked = Cardinality(tool.failed)
                        + (IF tool.invoked > 0 /\ created.root # Null THEN 1 ELSE 0)
    /\ tool.invoked <= Cardinality(RegisteredOf(tool))
    /\ tool.invoked = Cardinality(RegisteredOf(tool)) => tool.pc = "idle"
    /\ tool.pc = "create" =>
         /\ tool.creators # {}
         /\ tool.creators \cup tool.failed \in {tool.mutators, tool.recombiners}

\* the second call starts and can select the creator that gave nullptr last
\* in the first call
C15_Witness ==
    /\ tool.calls = 2
    /\ tool.pc = "create"
    /\ tool.invoked = 0
    /\ created.root = Null
    /\ created.creator \in tool.creators

----------------------------------------------------------------------------
(* The custom mutators the fuzzers call: afl_custom_fuzz of libgrafl
   (grafl.cpp) and custom_mutator and custom_cross_over of LibFuzzerTool
   (tool/LibFuzzerTool.hpp) *)

\* largest number of calls of a custom mutator
MaxFuzzCalls == 2
\* largest number of rounds of the loop of custom_mutator and custom_cross_over
MaxFuzzRounds == 2

\* the maximum sizes the fuzzer passes
MaxSizes == {16, 80, 4096}

\* creators[name](individual1, individual2)
Creator(name, t) ==
    CASE name = "regenerate_rule" -> regenerate_rule(t)
      [] name = "delete_quantified" -> delete_quantified(t)
      [] name = "replicate_quantified" -> replicate_quantified(t)
      [] name = "shuffle_quantifieds" -> shuffle_quantifieds(t)
      [] name = "hoist_rule" -> hoist_rule(t)
      [] name = "swap_local_nodes" -> swap_local_nodes(t)
      [] name = "insert_local_node" -> insert_local_node(t)
      [] name = "replace_node" -> replace_node(t)
      [] name = "insert_quantified" -> insert_quantified(t)

\* what a whole call of create_tree(creators, individual1, individual2) can
\* give: the tree of any creator that gives one (the creators that gave
\* nullptr before it left the tree as it was), or the root of individual1
\* unchanged when every creator can give nullptr
CreateTree(t, creators) ==
    UNION {
        UNION {{r \in results[c] : r.result # Null} : c \in creators}
        \cup (IF \A c \in creators : \E r \in results[c] : r.result = Null
              THEN {Outcome(t.tree, t.freed, t.root)} ELSE {})
        : results \in {[c \in creators |-> Creator(c, t)]}}

\* Individual(root, false): a new <ROOT> node takes root as its child
Wrap(h, root) ==
    add_child(h @@ ((Cardinality(DOMAIN h) + 1) :> UnparserRule("<ROOT>")),
              Cardinality(DOMAIN h) + 1, root)

\* codec.encode(root, buffer, maxsize): the number of bytes written, 0 when
\* the encoding is larger than maxsize
EncodeInto(out, maxsize) == IF Len(out) <= maxsize THEN Len(out) ELSE 0

\* the end of afl_custom_fuzz that returns the test also when memoize_test
\* gives false
AflReturn_IgnoreMemo(st, h, mutated_tree, out, max_size) ==
    LET last == [tree |-> TRUE, n |-> Len(out), max_size |-> max_size, out |-> out,
                 known |-> st.memo.memo_size >= 1
                           /\ MemoKey(st.memo.flavour, out) \in st.memo.memo]
        st1 == [st EXCEPT !.tree = h, !.mutated_tree = mutated_tree, !.last = last]
    IN IF Len(out) > max_size THEN [st1 EXCEPT !.ret = 0]
       ELSE [st1 EXCEPT !.memo = memoize_test(st.memo, out).m, !.fuzz_cnt = @ + 1,
                        !.fuzz_buf = out, !.out_buf = out, !.ret = Len(out)]

\* the end of afl_custom_fuzz, from the encoding of the mutated tree on; last
\* records the size of the encoding, max_size and whether the memo held the
\* test when the call began
AflReturn(st, h, mutated_tree, out, max_size) ==
    LET last == [tree |-> TRUE, n |-> Len(out), max_size |-> max_size, out |-> out,
                 known |-> st.memo.memo_size >= 1
                           /\ MemoKey(st.memo.flavour, out) \in st.memo.memo]
        st1 == [st EXCEPT !.tree = h, !.mutated_tree = mutated_tree, !.last = last]
    IN IF Len(out) > max_size THEN [st1 EXCEPT !.ret = 0]
       ELSE LET m == memoize_test(st.memo, out)
            IN IF ~m.result THEN [st1 EXCEPT !.ret = 0]
               ELSE [st1 EXCEPT !.memo = m.m, !.fuzz_cnt = @ + 1, !.fuzz_buf = out,
                                !.out_buf = out, !.ret = Len(out)]

\* afl_custom_fuzz that mutates current_tree itself
afl_custom_fuzz_InPlace(st, max_size) ==
    IF st.current_tree = Null
    THEN {[st EXCEPT !.out_buf = <<>>, !.ret = 0,
                     !.last = [tree |-> FALSE, n |-> 0, max_size |-> max_size,
                               out |-> <<>>, known |-> FALSE]]}
    ELSE UNION {
           {AflReturn(st, h, r.result, out, max_size)
              : h \in {RuleRemove(r.tree, r.result)}, out \in {Encode(r.tree, r.result)}}
           : r \in CreateTree([tree |-> Wrap(st.tree, st.current_tree), freed |-> {},
                               root |-> st.current_tree, donor |-> Null, limit |-> st.limit],
                              Mutators)}

\* size_t afl_custom_fuzz(data, buf, buf_size, out_buf, add_buf, add_buf_size,
\* max_size): the states the call can leave. The clone of current_tree is
\* mutated under an Individual that does not own it
afl_custom_fuzz(st, max_size) ==
    IF st.current_tree = Null
    THEN {[st EXCEPT !.out_buf = <<>>, !.ret = 0,
                     !.last = [tree |-> FALSE, n |-> 0, max_size |-> max_size,
                               out |-> <<>>, known |-> FALSE]]}
    ELSE UNION {
           UNION {
             {AflReturn(st, h, r.result, out, max_size)
                : h \in {RuleRemove(r.tree, r.result)}, out \in {Encode(r.tree, r.result)}}
             : r \in CreateTree([tree |-> Wrap(c.tree, c.node), freed |-> {},
                                 root |-> c.node, donor |-> Null, limit |-> st.limit],
                                Mutators)}
           : c \in {clone(st.tree, st.current_tree)}}

\* the trees of the queue entries of AFL
AflTrees ==
    { Rule("S", <<Alternative(0, 0, <<DeriveA(1), Rule("C", <<DeriveA(0)>>)>>)>>),
      Rule("S", <<Alternative(0, 1, <<DeriveB(<<"b", "c">>), DeriveB(<<>>)>>)>>) }

\* the trees of the inputs of libFuzzer: the recipient and the donor
LibFuzzerTrees ==
    { <<DeriveA(2), DeriveA(1)>>, <<DeriveA(0), DeriveA(2)>> }

\* the limits of the tools of the fuzzers
FuzzLimits == {RuleSize(MaxLimitDepth, MaxLimitTokens), RuleSizeMax}

\* grafl_state after afl_custom_init, with or without a tree from
\* afl_custom_queue_get
AflStates ==
    {[flavour |-> "afl", tree |-> <<>>, current_tree |-> Null, mutated_tree |-> Null,
      limit |-> limit,
      memo |-> [flavour |-> "Tool", memo_size |-> n, memo |-> {}, memo_order |-> <<>>],
      fuzz_cnt |-> 0, fuzz_buf |-> <<>>, out_buf |-> <<>>, ret |-> 0, calls |-> 0,
      last |-> [tree |-> FALSE, n |-> 0, max_size |-> 0, out |-> <<>>, known |-> FALSE]]
       : limit \in FuzzLimits, n \in 0..MaxMemoSize}
    \cup
    {[flavour |-> "afl", tree |-> new.tree, current_tree |-> new.node,
      mutated_tree |-> Null, limit |-> limit,
      memo |-> [flavour |-> "Tool", memo_size |-> n, memo |-> {}, memo_order |-> <<>>],
      fuzz_cnt |-> 0, fuzz_buf |-> <<>>, out_buf |-> <<>>, ret |-> 0, calls |-> 0,
      last |-> [tree |-> FALSE, n |-> 0, max_size |-> 0, out |-> <<>>, known |-> FALSE]]
       : new \in {New(term, <<>>) : term \in AflTrees}, limit \in FuzzLimits,
         n \in 0..MaxMemoSize}

\* a LibFuzzerTool and the trees of the inputs of its calls as load or decode
\* give them, each under a <ROOT> node
LibFuzzerState(trees, limit) ==
    LET recipient == New(Term(UnparserRule("<ROOT>"), <<trees[1]>>), <<>>)
        donor == New(Term(UnparserRule("<ROOT>"), <<trees[2]>>), recipient.tree)
    IN [flavour |-> "libfuzzer", tree |-> donor.tree, root |-> recipient.node,
        donor_root |-> donor.node, limit |-> limit, pc |-> "idle",
        maxsize |-> 0, outsize |-> 0, data |-> <<>>, ret |-> 0, calls |-> 0, rounds |-> 0,
        fits |-> TRUE]

LibFuzzerStates ==
    {LibFuzzerState(trees, limit) : trees \in LibFuzzerTrees, limit \in FuzzLimits}

FuzzInitial ==
    /\ TrimUnused
    /\ ContentUnused
    /\ MemoUnused
    /\ ToolUnused
    /\ ForestUnused
    /\ GeneratorUnused
    /\ PopulationUnused
    /\ phase = "none"
    /\ ret = -1
    /\ initial = "none"
    /\ trimmed = <<>>
    /\ answers = <<>>
    /\ fuzz \in AflStates \cup LibFuzzerStates

\* the variables the custom mutators leave alone
outsideFuzz == <<trimVars, contentVars, memoVars, toolVars, forest, gen, population>>

\* AFL calls afl_custom_fuzz
AflCustomFuzz ==
    /\ fuzz.flavour = "afl"
    /\ fuzz.calls < MaxFuzzCalls
    /\ \E max_size \in MaxSizes : \E st \in afl_custom_fuzz(fuzz, max_size) :
         fuzz' = [st EXCEPT !.calls = @ + 1]
    /\ UNCHANGED outsideFuzz

\* the entry of a call of libFuzzer, up to the loop
FuzzEnter(name, maxsize) ==
    fuzz' = [fuzz EXCEPT !.pc = name, !.maxsize = maxsize, !.outsize = 0, !.rounds = 0,
                         !.calls = @ + 1]

\* one round of the do-while loop: the tree is mutated or recombined and
\* encoded into the buffer; the loop ends when the encoding fits, and the
\* call returns its size
FuzzRound(r) ==
    \E out \in {Encode(r.tree, r.result)} :
    \E outsize \in {EncodeInto(out, fuzz.maxsize)} :
      fuzz' = [fuzz EXCEPT !.tree = r.tree, !.outsize = outsize, !.fits = outsize # 0,
                           !.rounds = @ + 1,
                           !.data = IF outsize # 0 THEN out ELSE @,
                           !.ret = IF outsize # 0 THEN outsize ELSE @,
                           !.pc = IF outsize # 0 THEN "idle" ELSE @]

\* size_t custom_mutator(data, size, maxsize, seed), up to the loop
custom_mutator ==
    /\ fuzz.flavour = "libfuzzer"
    /\ fuzz.pc = "idle"
    /\ fuzz.calls < MaxFuzzCalls
    /\ \E maxsize \in MaxSizes : FuzzEnter("custom_mutator", maxsize)
    /\ UNCHANGED outsideFuzz

\* a round of the loop of custom_mutator
MutatorRound ==
    /\ fuzz.flavour = "libfuzzer"
    /\ fuzz.pc = "custom_mutator"
    /\ fuzz.rounds < MaxFuzzRounds
    /\ \E r \in CreateTree([tree |-> fuzz.tree, freed |-> {}, root |-> fuzz.root,
                             donor |-> Null, limit |-> fuzz.limit], Mutators) :
         FuzzRound(r)
    /\ UNCHANGED outsideFuzz

\* size_t custom_cross_over(data1, size1, data2, size2, out, maxoutsize, seed),
\* up to the loop
custom_cross_over ==
    /\ fuzz.flavour = "libfuzzer"
    /\ fuzz.pc = "idle"
    /\ fuzz.calls < MaxFuzzCalls
    /\ \E maxoutsize \in MaxSizes : FuzzEnter("custom_cross_over", maxoutsize)
    /\ UNCHANGED outsideFuzz

\* a round of the loop of custom_cross_over
CrossOverRound ==
    /\ fuzz.flavour = "libfuzzer"
    /\ fuzz.pc = "custom_cross_over"
    /\ fuzz.rounds < MaxFuzzRounds
    /\ \E r \in CreateTree([tree |-> fuzz.tree, freed |-> {}, root |-> fuzz.root,
                             donor |-> fuzz.donor_root, limit |-> fuzz.limit],
                            Recombiners) :
         FuzzRound(r)
    /\ UNCHANGED outsideFuzz

FuzzNext ==
    \/ AflCustomFuzz
    \/ custom_mutator
    \/ MutatorRound
    \/ custom_cross_over
    \/ CrossOverRound

SpecFuzz == FuzzInitial /\ [][FuzzNext]_vars

\* C16: afl_custom_fuzz, called with a current tree, returns 0 when the
\* encoding of the mutated tree is larger than max_size or when the memo
\* already holds the encoded test; otherwise it returns the length of the
\* encoding and out_buf holds the encoding.
C16_AflFuzzReturn ==
    (fuzz.flavour = "afl" /\ fuzz.calls > 0 /\ fuzz.last.tree) =>
        /\ fuzz.last.out = Encode(fuzz.tree, fuzz.mutated_tree)
        /\ fuzz.last.n = Len(fuzz.last.out)
        /\ IF fuzz.last.n > fuzz.last.max_size \/ fuzz.last.known
           THEN fuzz.ret = 0
           ELSE fuzz.ret = fuzz.last.n /\ fuzz.out_buf = fuzz.last.out

\* a call that gave 0 for a test that fits and that the memo held
C16_Witness ==
    /\ fuzz.flavour = "afl"
    /\ fuzz.calls > 0
    /\ fuzz.last.tree
    /\ fuzz.last.known
    /\ fuzz.last.n <= fuzz.last.max_size
    /\ fuzz.ret = 0

\* C17: custom_mutator and custom_cross_over of LibFuzzerTool return 0 when
\* the encoding of the mutated or recombined tree does not fit in the maximum
\* size of the caller: after an encoding that does not fit, the call has
\* returned, with 0.
C17_OversizeReturnsZero ==
    (fuzz.flavour = "libfuzzer" /\ fuzz.rounds > 0 /\ ~fuzz.fits) =>
        /\ fuzz.pc = "idle"
        /\ fuzz.ret = 0

(***************************************************************************)
(* The contexts of the Generator (runtime/Generator.hpp).  The function of *)
(* a rule opens the contexts as scoped objects, so they are closed in the  *)
(* reverse of the order they were opened in: gen.stack.  The functions of  *)
(* the rules are generated code; the model runs the one of  S -> 'a'+      *)
(* under a quantify that always continues (grammar "S"), and any nesting   *)
(* of rules, alternations and quantifiers under the DefaultModel ("any").  *)
(***************************************************************************)

\* most contexts one generation opens
MaxContexts == 3

\* most repetitions of one quantifier
MaxRepetitions == 4

\* most tokens one generation emits
MaxTokens == 4

RuleSizePlus(a, b) == RuleSize(a.depth + b.depth, a.tokens + b.tokens)

\* a context before any field is set
NoContext ==
    [kind |-> "none", orig_depth_limit |-> 0, reserve |-> 0, entry |-> RuleSize(0, 0),
     start |-> 0, stop |-> 0, min_size |-> RuleSize(0, 0), cnt |-> 0, children |-> 0,
     declined |-> FALSE, node |-> <<>>]

\* the last step of the generation, before any step
NoStep ==
    [op |-> "none", entry |-> RuleSize(0, 0), size |-> RuleSize(0, 0), min_sizes |-> <<>>,
     conditions |-> <<>>, choice |-> -1, cnt |-> 0, start |-> 0, stop |-> 0,
     fits |-> FALSE, quantify |-> FALSE, result |-> FALSE]

\* Generator::Generator with listeners and a limit: _size{}, _limit and
\* _listeners; events is the history of the calls the listeners received
Generator(grammar, listeners, limit) ==
    [grammar |-> grammar, _size |-> RuleSize(0, 0), _limit |-> limit, stack |-> <<>>,
     opened |-> 0, tokens |-> 0, last |-> NoStep, _listeners |-> listeners,
     events |-> <<>>]

GeneratorLimits == {RuleSize(2, 2), RuleSize(3, 1), RuleSize(10, 3)}

GeneratorInitial ==
    /\ TrimUnused
    /\ ContentUnused
    /\ MemoUnused
    /\ ToolUnused
    /\ ForestUnused
    /\ FuzzUnused
    /\ PopulationUnused
    /\ phase = "none"
    /\ ret = -1
    /\ initial = "none"
    /\ trimmed = <<>>
    /\ answers = <<>>
    /\ gen \in {Generator("S", <<>>, RuleSize(10, 3))}
               \cup {Generator("any", <<>>, limit) : limit \in GeneratorLimits}

\* the variables the generator leaves alone
outsideGenerator == <<trimVars, contentVars, memoVars, toolVars, forest, fuzz, population>>

\* the innermost open context
Top(g) == IF g.stack = <<>> THEN NoContext ELSE g.stack[Len(g.stack)]

Push(g, ctx) == [g EXCEPT !.stack = Append(@, ctx), !.opened = @ + 1]

Pop(g) == [g EXCEPT !.stack = SubSeq(@, 1, Len(@) - 1)]

\* the body of a rule, of an alternative or of a quantified is running
InBody(g) == Top(g).kind \in {"rule", "alt", "quantified"}

\* the call of one listener: which function, of which listener, for which node
Event(call, listener, node) == [call |-> call, listener |-> listener, node |-> node]

\* Generator::_exit_rule that walks the listeners from the first to the last
_exit_rule_Forward(g, node) ==
    [g EXCEPT !.events = @ \o [i \in 1..Len(g._listeners) |->
                                  Event("exit_rule", g._listeners[i], node)]]

\* Generator::_enter_rule
_enter_rule(g, node) ==
    [g EXCEPT !.events = @ \o [i \in 1..Len(g._listeners) |->
                                  Event("enter_rule", g._listeners[i], node)]]

\* Generator::_exit_rule: i runs from size - 1 down to 0
_exit_rule(g, node) ==
    [g EXCEPT !.events = @ \o [i \in 1..Len(g._listeners) |->
                                  Event("exit_rule",
                                        g._listeners[Len(g._listeners) + 1 - i], node)]]

\* RuleContext::enter
enter(g, node) == _enter_rule([g EXCEPT !._size.depth = @ + 1], node)

\* RuleContext::exit
exit(g, node) == [_exit_rule(g, node) EXCEPT !._size.depth = @ - 1]

\* the node a rule context allocates: new UnparserRule or new UnlexerRule
NewRule(g) == <<"rule", g.opened + 1>>

\* UnparserRuleContext::UnparserRuleContext: the new node is entered
UnparserRuleContext(g) ==
    [enter(Push(g, [NoContext EXCEPT !.kind = "rule", !.node = NewRule(g)]), NewRule(g))
        EXCEPT !.last = [NoStep EXCEPT !.op = "enter_rule"]]

\* UnparserRuleContext::~UnparserRuleContext: RuleContext::exit
UnparserRuleContext_exit(g) ==
    [exit(Pop(g), Top(g).node) EXCEPT !.last = [NoStep EXCEPT !.op = "exit_rule"]]

\* UnlexerRuleContext::UnlexerRuleContext: under a lexer rule the context
\* keeps the node of the parent, else it allocates one; the node is entered
\* and one token is counted
UnlexerRuleContext_enter(g) ==
    LET node == IF Top(g).kind = "lexer" THEN Top(g).node ELSE NewRule(g)
    IN  [enter(Push(g, [NoContext EXCEPT !.kind = "lexer", !.node = node]), node)
            EXCEPT !._size.tokens = @ + 1, !.tokens = @ + 1,
                   !.last = [NoStep EXCEPT !.op = "enter_lexer"]]

\* UnlexerRuleContext::~UnlexerRuleContext: RuleContext::exit
UnlexerRuleContext_exit(g) ==
    [exit(Pop(g), Top(g).node) EXCEPT !.last = [NoStep EXCEPT !.op = "exit_lexer"]]

\* UnlexerRuleContext of a token of a parser rule, from construction to
\* destruction: the depth is entered and left, the token stays counted
UnlexerRuleContext(g) ==
    LET node == <<"token", g.tokens + 1>>
    IN  [g EXCEPT !._size.tokens = @ + 1, !.tokens = @ + 1,
                  !.events = exit(enter(g, node), node).events,
                  !.last = [NoStep EXCEPT !.op = "token"]]

\* the weights of the alternatives: the condition where the alternative fits
Weights(size, limit, min_sizes, conditions) ==
    [i \in 1..Len(conditions) |->
        IF RuleSizeLessEq(RuleSizePlus(size, min_sizes[i]), limit) THEN conditions[i] ELSE 0]

RECURSIVE SumWeights(_, _)
\* wsum, and std::accumulate of DefaultModel::choice
SumWeights(weights, i) ==
    IF i > Len(weights) THEN 0 ELSE weights[i] + SumWeights(weights, i + 1)

RECURSIVE SmallestMinSize(_, _, _, _)
\* the loop over the alternatives that looks for the smallest min_size
SmallestMinSize(min_sizes, conditions, i, min_size) ==
    IF i > Len(conditions) THEN min_size
    ELSE IF /\ conditions[i] > 0
            /\ \/ min_sizes[i].depth < min_size.depth
               \/ /\ min_sizes[i].depth = min_size.depth
                  /\ min_sizes[i].tokens < min_size.tokens
         THEN SmallestMinSize(min_sizes, conditions, i + 1, min_sizes[i])
         ELSE SmallestMinSize(min_sizes, conditions, i + 1, min_size)

\* DefaultModel::choice: the indices (from 0) the model can return
choice(weights) ==
    IF SumWeights(weights, 1) = 0
    THEN {Len(weights) - 1}
    ELSE {i - 1 : i \in {j \in 1..Len(weights) : weights[j] > 0}}

\* int + int: a sum above INT_MAX is undefined, the build can wrap it around
\* or keep it at the top
IntPlus(a, b) ==
    IF a > INT_MAX - b
    THEN {(a - INT_MAX - 1) + (b - INT_MAX - 1), INT_MAX}
    ELSE {a + b}

\* gen->_size + min_size, the new limit of the relaxation
NewLimits(size, min_size) ==
    {RuleSize(depth, tokens) : depth \in IntPlus(size.depth, min_size.depth),
                               tokens \in IntPlus(size.tokens, min_size.tokens)}

\* the limit after the relaxation for new_limit
Relaxed(limit, new_limit) ==
    RuleSize(IF new_limit.depth > limit.depth THEN new_limit.depth ELSE limit.depth,
             IF new_limit.tokens > limit.tokens THEN new_limit.tokens ELSE limit.tokens)

\* AlternationContext::AlternationContext without the second computation of
\* the weights
AlternationContext_KeepWeights(g, min_sizes, reserve, conditions) ==
    LET size == RuleSize(g._size.depth, g._size.tokens + reserve)
        weights == Weights(size, g._limit, min_sizes, conditions)
        relax == SumWeights(weights, 1) = 0
        min_size == SmallestMinSize(min_sizes, conditions, 1, RuleSizeMax)
        limits == IF relax
                  THEN {Relaxed(g._limit, new_limit) : new_limit \in NewLimits(size, min_size)}
                  ELSE {g._limit}
        ctx == [NoContext EXCEPT !.kind = "alt", !.orig_depth_limit = g._limit.depth,
                                 !.reserve = reserve, !.entry = g._limit]
    IN  UNION {{[Push(g, ctx) EXCEPT
                    !._size = size,
                    !._limit = limit,
                    !.last = [NoStep EXCEPT !.op = "enter_alt", !.entry = g._limit,
                                            !.size = size, !.min_sizes = min_sizes,
                                            !.conditions = conditions, !.choice = c]]
                 : c \in choice(weights)}
               : limit \in limits}

\* AlternationContext::AlternationContext: the generators it can leave, one
\* for each limit the relaxation can give and alternative the model can choose
AlternationContext(g, min_sizes, reserve, conditions) ==
    LET size == RuleSize(g._size.depth, g._size.tokens + reserve)
        weights == Weights(size, g._limit, min_sizes, conditions)
        relax == SumWeights(weights, 1) = 0
        min_size == SmallestMinSize(min_sizes, conditions, 1, RuleSizeMax)
        limits == IF relax
                  THEN {Relaxed(g._limit, new_limit) : new_limit \in NewLimits(size, min_size)}
                  ELSE {g._limit}
        ctx == [NoContext EXCEPT !.kind = "alt", !.orig_depth_limit = g._limit.depth,
                                 !.reserve = reserve, !.entry = g._limit]
    IN  UNION {{[Push(g, ctx) EXCEPT
                    !._size = size,
                    !._limit = limit,
                    !.last = [NoStep EXCEPT !.op = "enter_alt", !.entry = g._limit,
                                            !.size = size, !.min_sizes = min_sizes,
                                            !.conditions = conditions, !.choice = c]]
                 : c \in choice(IF relax THEN Weights(size, limit, min_sizes, conditions) ELSE weights)}
               : limit \in limits}

\* AlternationContext::~AlternationContext
AlternationContext_exit(g) ==
    LET ctx == Top(g)
    IN  [Pop(g) EXCEPT
            !._limit.depth = ctx.orig_depth_limit,
            !._size.tokens = @ - ctx.reserve,
            !.last = [NoStep EXCEPT !.op = "exit_alt", !.entry = ctx.entry]]

\* QuantifierContext::QuantifierContext
QuantifierContext(g, start, stop, min_size, reserve) ==
    [Push(g, [NoContext EXCEPT !.kind = "quant", !.start = start, !.stop = stop,
                               !.min_size = min_size, !.reserve = reserve,
                               !.entry = g._limit])
        EXCEPT !._size.tokens = @ + reserve, !.last = [NoStep EXCEPT !.op = "enter_quant"]]

\* QuantifierContext::~QuantifierContext
QuantifierContext_exit(g) ==
    [Pop(g) EXCEPT !._size.tokens = @ - Top(g).reserve,
                   !.last = [NoStep EXCEPT !.op = "exit_quant", !.cnt = Top(g).children,
                                           !.start = Top(g).start, !.stop = Top(g).stop]]

\* QuantifierContext::operator() that asks the model before the budget
QuantifierContext_call_NoBudget(ctx, size, limit, quantify) ==
    IF ctx.cnt < ctx.start THEN TRUE
    ELSE ctx.cnt < ctx.stop /\ quantify

\* QuantifierContext::operator(): quantify is what Model::quantify returns
\* when it is asked
QuantifierContext_call(ctx, size, limit, quantify) ==
    IF ctx.cnt < ctx.start THEN TRUE
    ELSE /\ ctx.cnt < ctx.stop
         /\ RuleSizeLessEq(RuleSizePlus(size, ctx.min_size), limit)
         /\ quantify

\* the rule enters: UnparserRuleContext is constructed
EnterRule ==
    /\ gen.opened < MaxContexts
    /\ \/ gen.grammar = "S" /\ gen.opened = 0
       \/ gen.grammar = "any" /\ (gen.stack = <<>> \/ InBody(gen))
       \/ gen.grammar = "rules" /\ Top(gen).kind \in {"none", "rule"}
    /\ gen' = UnparserRuleContext(gen)
    /\ UNCHANGED outsideGenerator

\* the rule returns: UnparserRuleContext is destructed
ExitRule ==
    /\ Top(gen).kind = "rule"
    /\ gen.grammar = "S" => gen.opened > 1
    /\ gen' = UnparserRuleContext_exit(gen)
    /\ UNCHANGED outsideGenerator

\* a token is emitted in the body: the one 'a' of each repetition in S
EmitToken ==
    /\ InBody(gen)
    /\ gen.tokens < MaxTokens
    /\ gen.grammar = "S" => Top(gen).kind = "quantified" /\ gen.last.op = "quantifier"
    /\ gen' = UnlexerRuleContext(gen)
    /\ UNCHANGED outsideGenerator

\* the sizes the alternatives can need at least
MinSizes == {RuleSize(1, 3), RuleSize(2, 1), RuleSize(2, 10)}

\* the conditions of an alternation of n alternatives
Conditions(n) == [1..n -> {0, 1}]

\* an alternation starts: AlternationContext is constructed
EnterAlternation ==
    /\ gen.opened < MaxContexts
    /\ gen.grammar = "any"
    /\ InBody(gen)
    /\ \E n \in 1..2, reserve \in {0, 1} :
         \E min_sizes \in [1..n -> MinSizes], conditions \in Conditions(n) :
            gen' \in AlternationContext(gen, min_sizes, reserve, conditions)
    /\ UNCHANGED outsideGenerator

\* the chosen alternative is over: AlternationContext is destructed
ExitAlternation ==
    /\ Top(gen).kind = "alt"
    /\ gen' = AlternationContext_exit(gen)
    /\ UNCHANGED outsideGenerator

\* the bounds of the quantifiers: S has 'a'+, from 1 to no bound
Bounds(g) ==
    IF g.grammar = "S" THEN {<<1, INT_MAX>>}
    ELSE {<<0, 1>>, <<1, 2>>, <<1, INT_MAX>>, <<2, 1>>}

\* a quantifier starts: QuantifierContext is constructed
EnterQuantifier ==
    /\ gen.opened < MaxContexts
    /\ InBody(gen)
    /\ gen.grammar = "S" => gen.opened = 1
    /\ \E bounds \in Bounds(gen),
          min_size \in IF gen.grammar = "S" THEN {RuleSize(1, 1)}
                                              ELSE {RuleSize(1, 1), RuleSize(2, 1)},
          reserve \in IF gen.grammar = "S" THEN {0} ELSE {0, 1} :
            gen' = QuantifierContext(gen, bounds[1], bounds[2], min_size, reserve)
    /\ UNCHANGED outsideGenerator

\* the loop of the quantifier asks for one more repetition; a repetition
\* granted opens a QuantifiedContext, a refusal ends the loop
QuantifierCall ==
    /\ Top(gen).kind = "quant"
    /\ ~Top(gen).declined
    /\ Top(gen).cnt < MaxRepetitions
    /\ \E quantify \in IF gen.grammar = "S" THEN {TRUE} ELSE BOOLEAN :
         LET ctx == Top(gen)
             result == QuantifierContext_call(ctx, gen._size, gen._limit, quantify)
             step == [NoStep EXCEPT !.op = "quantifier", !.cnt = ctx.cnt, !.start = ctx.start,
                         !.stop = ctx.stop, !.size = gen._size, !.entry = gen._limit,
                         !.fits = RuleSizeLessEq(RuleSizePlus(gen._size, ctx.min_size),
                                                 gen._limit),
                         !.quantify = quantify, !.result = result]
             n == Len(gen.stack)
         IN  gen' = IF result
                    THEN [gen EXCEPT
                            !.stack = Append([@ EXCEPT ![n].cnt = @ + 1,
                                                       ![n].children = @ + 1],
                                             [NoContext EXCEPT !.kind = "quantified"]),
                            !.last = step]
                    ELSE [gen EXCEPT !.stack[n].declined = TRUE, !.last = step]
    /\ UNCHANGED outsideGenerator

\* one repetition is over: QuantifiedContext is destructed
ExitQuantified ==
    /\ Top(gen).kind = "quantified"
    /\ gen.grammar = "S" => gen.last.op = "token"
    /\ gen' = [Pop(gen) EXCEPT !.last = [NoStep EXCEPT !.op = "exit_quantified"]]
    /\ UNCHANGED outsideGenerator

\* the loop of the quantifier is over: QuantifierContext is destructed
ExitQuantifier ==
    /\ Top(gen).kind = "quant"
    /\ Top(gen).declined
    /\ gen' = QuantifierContext_exit(gen)
    /\ UNCHANGED outsideGenerator

GeneratorNext ==
    \/ EnterRule
    \/ ExitRule
    \/ EmitToken
    \/ EnterAlternation
    \/ ExitAlternation
    \/ EnterQuantifier
    \/ QuantifierCall
    \/ ExitQuantified
    \/ ExitQuantifier

SpecGenerator == GeneratorInitial /\ [][GeneratorNext]_vars

\* C18: when an AlternationContext exits, the limit of the generator, depth
\* and tokens, is the limit at the entry of that context, nested or not.
C18_LimitRestored ==
    gen.last.op = "exit_alt" => gen._limit = gen.last.entry

\* the depth of the limit is the one at the entry whenever an alternation exits
C18_DepthRestored ==
    gen.last.op = "exit_alt" => gen._limit.depth = gen.last.entry.depth

\* alternative i (from 1) is admitted by the limit
Feasible(size, limit, min_sizes, conditions, i) ==
    conditions[i] > 0 /\ RuleSizeLessEq(RuleSizePlus(size, min_sizes[i]), limit)

\* the min_size of an alternative with a positive condition that no other
\* such alternative is below, on depth and then on tokens
LeastMinSize(min_sizes, conditions) ==
    LET positive == {min_sizes[i] : i \in {j \in 1..Len(conditions) : conditions[j] > 0}}
    IN  CHOOSE m \in positive :
            \A o \in positive :
                m.depth < o.depth \/ (m.depth = o.depth /\ m.tokens <= o.tokens)

\* C19: when no alternative with a positive condition fits and there is one,
\* the limit is raised to just admit the one with the least min_size, and
\* the alternative chosen has a positive condition and fits the raised
\* limit; with conditions (1, 1), min sizes [(2,10), (2,1)], size (1, 0) and
\* limit (2, 2) the choice is index 1.
C19_RelaxedChoice ==
    LET l == gen.last
        n == Len(l.conditions)
    IN  (/\ l.op = "enter_alt"
         /\ \E i \in 1..n : l.conditions[i] > 0
         /\ \A i \in 1..n : ~Feasible(l.size, l.entry, l.min_sizes, l.conditions, i))
        => LET m == LeastMinSize(l.min_sizes, l.conditions)
           IN  /\ gen._limit.depth = Max(l.entry.depth, l.size.depth + m.depth)
               /\ gen._limit.tokens = Max(l.entry.tokens, l.size.tokens + m.tokens)
               /\ Feasible(l.size, gen._limit, l.min_sizes, l.conditions, l.choice + 1)
               /\ (/\ l.conditions = <<1, 1>>
                   /\ l.min_sizes = <<RuleSize(2, 10), RuleSize(2, 1)>>
                   /\ l.size = RuleSize(1, 0)
                   /\ l.entry = RuleSize(2, 2)) => l.choice = 1

\* the alternation of the example has just been entered
C19_Witness ==
    /\ gen.last.op = "enter_alt"
    /\ gen.last.conditions = <<1, 1>>
    /\ gen.last.min_sizes = <<RuleSize(2, 10), RuleSize(2, 1)>>
    /\ gen.last.size = RuleSize(1, 0)
    /\ gen.last.entry = RuleSize(2, 2)
    /\ gen._limit = RuleSize(3, 2)
    /\ gen.last.choice = 1

\* C20: the repetition query gives true while cnt < start whatever the
\* budget, and from start on exactly when cnt < stop, the quantified fits and
\* the model continues; so a quantifier with start <= stop has at most stop
\* repetitions and ends with at least start, and S -> 'a'+ under the limit
\* (10, 3) and a model that always continues ends with exactly 3 tokens.
C20_Repetitions ==
    /\ gen.last.op = "quantifier" =>
          gen.last.result = (\/ gen.last.cnt < gen.last.start
                             \/ /\ gen.last.cnt < gen.last.stop
                                /\ gen.last.fits
                                /\ gen.last.quantify)
    /\ \A i \in 1..Len(gen.stack) :
          (gen.stack[i].kind = "quant" /\ gen.stack[i].start <= gen.stack[i].stop) =>
              /\ gen.stack[i].children <= gen.stack[i].stop
              /\ gen.stack[i].declined => gen.stack[i].children >= gen.stack[i].start
    /\ (gen.last.op = "exit_quant" /\ gen.last.start <= gen.last.stop) =>
          gen.last.start <= gen.last.cnt /\ gen.last.cnt <= gen.last.stop
    /\ (gen.grammar = "S" /\ gen.stack = <<>> /\ gen.opened > 0) => gen.tokens = 3

\* the generation of S is over
C20_Witness ==
    /\ gen.grammar = "S"
    /\ gen.stack = <<>>
    /\ gen.opened = 2
    /\ gen.last.op = "exit_rule"
    /\ gen.tokens = 3

(***************************************************************************)
(* The listeners of the Generator: the rules of grammar "rules" call each  *)
(* other, parser rules and lexer rules, under one to three listeners.      *)
(***************************************************************************)

\* the listeners registered, in the order of registration
Listeners == {<<"first">>, <<"first", "second">>, <<"first", "second", "third">>}

ListenerInitial ==
    /\ TrimUnused
    /\ ContentUnused
    /\ MemoUnused
    /\ ToolUnused
    /\ ForestUnused
    /\ FuzzUnused
    /\ PopulationUnused
    /\ phase = "none"
    /\ ret = -1
    /\ initial = "none"
    /\ trimmed = <<>>
    /\ answers = <<>>
    /\ gen \in {Generator("rules", listeners, RuleSizeMax) : listeners \in Listeners}

\* a lexer rule enters, from a parser rule or as a sub-rule of a lexer rule
EnterLexerRule ==
    /\ gen.grammar = "rules"
    /\ gen.opened < MaxContexts
    /\ Top(gen).kind \in {"none", "rule", "lexer"}
    /\ gen' = UnlexerRuleContext_enter(gen)
    /\ UNCHANGED outsideGenerator

\* a lexer rule returns
ExitLexerRule ==
    /\ Top(gen).kind = "lexer"
    /\ gen' = UnlexerRuleContext_exit(gen)
    /\ UNCHANGED outsideGenerator

ListenerNext ==
    \/ EnterRule
    \/ ExitRule
    \/ EnterLexerRule
    \/ ExitLexerRule

SpecListener == ListenerInitial /\ [][ListenerNext]_vars

\* the k-th group of events, one event for each listener
Group(g, k) ==
    SubSeq(g.events, (k - 1) * Len(g._listeners) + 1, k * Len(g._listeners))

RECURSIVE OpenNodes(_, _, _)
\* the nodes entered and not yet exited after the groups from k on, outermost
\* first, when the exits so far each closed the innermost open node;
\* <<"unmatched">> as soon as one did not
OpenNodes(g, k, open) ==
    IF k * Len(g._listeners) > Len(g.events) THEN open
    ELSE LET e == g.events[(k - 1) * Len(g._listeners) + 1]
         IN  IF e.call = "enter_rule"
             THEN OpenNodes(g, k + 1, Append(open, e.node))
             ELSE IF open # <<>> /\ open[Len(open)] = e.node
                  THEN OpenNodes(g, k + 1, SubSeq(open, 1, Len(open) - 1))
                  ELSE <<"unmatched">>

\* C21: the listeners receive enter_rule of a node in the order of their
\* registration and exit_rule in the reverse order; the events of a rule lie
\* between the enter and the exit of every rule around it, and every enter
\* has one exit, for the same node, once its context is closed.
C21_ListenerNesting ==
    LET n == Len(gen._listeners)
    IN  /\ Len(gen.events) % n = 0
        /\ \A k \in 1..(Len(gen.events) \div n) :
              \A j \in 1..n :
                 LET e == Group(gen, k)[j]
                 IN  /\ e.call = Group(gen, k)[1].call
                     /\ e.node = Group(gen, k)[1].node
                     /\ e.listener = IF e.call = "enter_rule"
                                     THEN gen._listeners[j]
                                     ELSE gen._listeners[n + 1 - j]
        /\ OpenNodes(gen, 1, <<>>) = [i \in 1..Len(gen.stack) |-> gen.stack[i].node]

\* a parser rule that called a lexer rule with a sub-rule has returned, under
\* two listeners
C21_Witness ==
    /\ gen.grammar = "rules"
    /\ gen._listeners = <<"first", "second">>
    /\ gen.stack = <<>>
    /\ Len(gen.events) = 12
    /\ gen.events[3].node # gen.events[1].node
    /\ gen.events[5].node = gen.events[3].node
    /\ gen.events[5].call = "enter_rule"
    /\ gen.events[12] = Event("exit_rule", "first", gen.events[1].node)

(***************************************************************************)
(* SubTreePopulation (tool/SubTreePopulation.hpp): the store of interned   *)
(* subtrees of AFLTool.  The store, the trees a caller adds and the trees  *)
(* select_by_type hands out live in one heap.  A content hash is modelled  *)
(* by the content XXH64 digests, so two nodes have the same hash exactly   *)
(* when they have the same content.                                        *)
(***************************************************************************)

\* most individuals a caller adds
MaxAdds == 3

\* most calls that select from the store
MaxSelects == 1

\* encode_kind(t)
encode_kind(type) ==
    CASE type = "UnlexerRule" -> "l"
      [] type = "UnparserRule" -> "p"
      [] type = "UnparserRuleAlternative" -> "a"
      [] type = "UnparserRuleQuantified" -> "d"
      [] type = "UnparserRuleQuantifier" -> "q"

\* collect_hashes(node): what the hash of the node digests, the hashes of the
\* children in place of the children
RECURSIVE collect_hashes(_, _)
collect_hashes(h, node) ==
    LET n == h[node]
    IN  [kind |-> encode_kind(n.type),
         name |-> IF n.type \in {"UnlexerRule", "UnparserRule"} THEN n.name ELSE "",
         src |-> IF n.type = "UnlexerRule" THEN n.src ELSE <<>>,
         size |-> IF n.type = "UnlexerRule" THEN n.size ELSE RuleSize(0, 0),
         immutable |-> n.type = "UnlexerRule" /\ n.immutable,
         fields |-> IF n.type = "UnparserRuleAlternative" THEN <<n.alt_idx, n.idx>>
                    ELSE IF n.type = "UnparserRuleQuantifier"
                    THEN <<n.idx, n.start, IF n.stop = INT_MAX THEN -1 ELSE n.stop>>
                    ELSE <<>>,
         children |-> [i \in 1..Len(n.children) |-> collect_hashes(h, n.children[i])]]

\* RuleData{}: key{""}, refcount{0}
RuleData(hash, key, size) == [hash |-> hash, key |-> key, size |-> size, refcount |-> 0]

\* NodeKey("")
NoKey == [name |-> "", type |-> "RuleKey", idx |-> 0]

\* SubTreePopulation(): an empty store in the heap h
SubTreePopulation(h) ==
    [heap |-> h, freed |-> {}, rule_data_ |-> <<>>, nodes_ |-> <<>>, node_by_hash_ |-> <<>>,
     nodes_by_name_ |-> <<>>]

\* nodes_by_name_[key].push_back(node)
PushByName(m, key, node) ==
    IF key \in DOMAIN m THEN [m EXCEPT ![key] = Append(@, node)] ELSE m @@ (key :> <<node>>)

\* node_by_hash_.find(hash): the node interned under the hash, Null at end()
Find(node_by_hash, hash) ==
    LET at == {i \in 1..Len(node_by_hash) : node_by_hash[i].hash = hash}
    IN  IF at = {} THEN Null ELSE node_by_hash[Least(at)].node

\* the reuse branch that leaves the refcounts as they are
Reuse_NoBump(p, node, it) ==
    LET sub == Subtree(p.heap, node)
    IN  [p EXCEPT !.rule_data_ = [n \in (DOMAIN p.rule_data_) \ sub |-> p.rule_data_[n]],
                  !.freed = @ \cup sub]

\* the branch of intern_node for a hash that is interned: the data of the
\* subtree of node is erased, the subtree is deleted, and the refcounts of
\* the interned node and of the nodes under it go up by one
Reuse(p, node, it) ==
    LET sub == Subtree(p.heap, node)
        seen == Subtree(p.heap, it)
    IN  [p EXCEPT !.rule_data_ = [n \in (DOMAIN p.rule_data_) \ sub |->
                                    IF n \in seen
                                    THEN [p.rule_data_[n] EXCEPT !.refcount = @ + 1]
                                    ELSE p.rule_data_[n]],
                  !.freed = @ \cup sub]

\* the branch of intern_node for a new hash, before the children
Register(p, node) ==
    [p EXCEPT !.rule_data_[node].refcount = 1,
              !.nodes_ = Append(@, node),
              !.node_by_hash_ = Append(@, [hash |-> p.rule_data_[node].hash, node |-> node]),
              !.nodes_by_name_ = PushByName(@, p.rule_data_[node].key, node)]

RECURSIVE intern_node(_, _)
RECURSIVE intern_children(_, _, _)
\* Rule* intern_node(node): the store after the call and the node returned
intern_node(p, node) ==
    LET it == Find(p.node_by_hash_, p.rule_data_[node].hash)
    IN  IF it # Null
        THEN [store |-> Reuse(p, node, it), node |-> it]
        ELSE ByValue(LAMBDA q : intern_children(q, node, 1), Register(p, node))

\* the loop of intern_node over the children: children[i] = intern_node(children[i])
intern_children(p, node, i) ==
    IF i > Len(p.heap[node].children) THEN [store |-> p, node |-> node]
    ELSE ByValue(LAMBDA r :
                    intern_children([r.store EXCEPT !.heap[node].children[i] = r.node],
                                    node, i + 1),
                 intern_node(p, p.heap[node].children[i]))

\* the key nodes_by_name() gives the node, NodeKey("") when it gives none
KeyIn(entries, node) ==
    LET at == {i \in 1..Len(entries) : entries[i].node = node}
    IN  IF at = {} THEN NoKey ELSE entries[Least(at)].key

\* void add_individual(root): the root is cloned, the clone is hashed, keyed
\* and measured, then interned
add_individual(p, root) ==
    IF root = Null THEN p
    ELSE ByValue(LAMBDA c :
            LET entries == collect_nodes(c.tree, c.node, c.node, <<>>)
                info == node_info(c.tree, c.node)
                data == [n \in Subtree(c.tree, c.node) |->
                            RuleData(collect_hashes(c.tree, n), KeyIn(entries, n),
                                     RuleSize(info[n].depth, info[n].tokens))]
            IN  intern_node([p EXCEPT !.heap = c.tree, !.rule_data_ = data @@ @],
                            c.node).store,
            clone(p.heap, root))

\* select_by_type that wraps the interned node itself
select_by_type_NoClone(p, type_name, max_depth, max_tokens) ==
    IF type_name \notin DOMAIN p.nodes_by_name_
    THEN {[store |-> p, individual |-> Null]}
    ELSE LET candidate_nodes == p.nodes_by_name_[type_name]
             fits == {i \in 1..Len(candidate_nodes) :
                        /\ p.rule_data_[candidate_nodes[i]].size.depth <= max_depth
                        /\ p.rule_data_[candidate_nodes[i]].size.tokens <= max_tokens}
         IN  IF fits = {}
             THEN {[store |-> p, individual |-> Null]}
             ELSE {[store |-> [p EXCEPT !.heap = Wrap(p.heap, candidate_nodes[i])],
                    individual |-> Cardinality(DOMAIN p.heap) + 1] : i \in fits}

\* Individual* select_by_type(type_name, max_depth, max_tokens): the stores
\* and individuals the random draw allows.  Every candidate within both
\* bounds has the weight 1 / refcount > 0, so total_w is 0 exactly when none
\* is; acc ends at total_w >= r, so the weighted loop returns whenever it is
\* reached and the loop on the tokens alone after it is never run
select_by_type(p, type_name, max_depth, max_tokens) ==
    IF type_name \notin DOMAIN p.nodes_by_name_
    THEN {[store |-> p, individual |-> Null]}
    ELSE LET candidate_nodes == p.nodes_by_name_[type_name]
             fits == {i \in 1..Len(candidate_nodes) :
                        /\ p.rule_data_[candidate_nodes[i]].size.depth <= max_depth
                        /\ p.rule_data_[candidate_nodes[i]].size.tokens <= max_tokens}
         IN  IF fits = {}
             THEN {[store |-> p, individual |-> Null]}
             ELSE {ByValue(LAMBDA c :
                              [store |-> [p EXCEPT !.heap = Wrap(c.tree, c.node)],
                               individual |-> Cardinality(DOMAIN c.tree) + 1],
                           clone(p.heap, candidate_nodes[i])) : i \in fits}

\* an int passed for a size_t: a negative one becomes a size above every
\* depth and token count, INT_MAX stands for it
ToSizeT(x) == IF x < 0 THEN INT_MAX ELSE x

\* the nodes of all keys of a lookup, each with its key
Options(lookup) ==
    UNION {{<<key, lookup[key][i]>> : i \in 1..Len(lookup[key])} : key \in DOMAIN lookup}

\* Rule* AFLTool::replace_from_pool(individual): the stores and results the
\* shuffle and the draw allow; the first option the store has an individual
\* for is replaced by it, the old node and the individual are deleted
replace_from_pool(p, root, limit) ==
    UNION {
        LET root_tokens == info[root].tokens
            options == {o \in Options(lookup) : p.heap[o[2]].parent # Null}
            selected(o) == select_by_type(p, o[1],
                                          ToSizeT(limit.depth - info[o[2]].level),
                                          ToSizeT(limit.tokens
                                                    - (root_tokens - info[o[2]].tokens)))
            found == UNION {{<<o[2], out>> : out \in {x \in selected(o) : x.individual # Null}}
                            : o \in options}
        IN  IF found = {} THEN {[store |-> p, result |-> Null]}
            ELSE {LET node == f[1]
                      indiv == f[2].individual
                      q == f[2].store
                  IN  [store |-> [q EXCEPT
                                    !.heap = replace(q.heap, node, q.heap[indiv].children[1]),
                                    !.freed = @ \cup Subtree(p.heap, node) \cup {indiv}],
                       result |-> root]
                  : f \in found}
        : info \in {node_info(p.heap, root)}, lookup \in {nodes_by_name(p.heap, root)}}

\* Rule* AFLTool::insert_quantified_from_pool(individual)
insert_quantified_from_pool(p, root, limit) ==
    UNION {
        LET root_tokens == info[root].tokens
            options == {o \in Options(quants) :
                          Len(p.heap[o[2]].children) < p.heap[o[2]].stop}
            selected(o) == select_by_type(p, o[1],
                                          ToSizeT(limit.depth - info[o[2]].level),
                                          ToSizeT(limit.tokens - root_tokens))
            found == UNION {{<<o[2], out>> : out \in {x \in selected(o) : x.individual # Null}}
                            : o \in options}
        IN  IF found = {} THEN {[store |-> p, result |-> Null]}
            ELSE UNION {
                   LET node == f[1]
                       indiv == f[2].individual
                       q == f[2].store
                       size == Len(p.heap[node].children)
                   IN  {[store |-> [q EXCEPT
                                      !.heap = insert_child(q.heap, node, pos,
                                                            q.heap[indiv].children[1]),
                                      !.freed = @ \cup {indiv}],
                         result |-> root]
                        : pos \in IF size > 0 THEN 0..(size - 1) ELSE {0}}
                   : f \in found}
        : info \in {node_info(p.heap, root)}, quants \in {quants_by_name(p.heap, root)}}

\* the trees the callers add
PopulationTrees ==
    <<DeriveA(0), Rule("C", <<DeriveA(0)>>), DeriveA(2), DeriveB(<<"b">>),
      Rule("D", <<Alternative(0, 0, <<Token("a")>>)>>)>>

\* how often each tree is to be added: at most twice, MaxAdds in all
RECURSIVE Total(_, _)
Total(counts, i) == IF i > Len(counts) THEN 0 ELSE counts[i] + Total(counts, i + 1)

Collections ==
    {counts \in [1..Len(PopulationTrees) -> 0..2] : Total(counts, 1) \in 2..MaxAdds}

RECURSIVE BuildAll(_, _, _)
\* the trees of the callers in new nodes: the heap and the roots
BuildAll(h, roots, i) ==
    IF i > Len(PopulationTrees) THEN [heap |-> h, roots |-> roots]
    ELSE ByValue(LAMBDA new : BuildAll(new.tree, Append(roots, new.node), i + 1),
                 New(PopulationTrees[i], h))

\* no call yet
NoCall ==
    [op |-> "none", type_name |-> NoKey, max_depth |-> 0, max_tokens |-> 0,
     individual |-> Null, before |-> SubTreePopulation(<<>>)]

PopulationState(counts) ==
    ByValue(LAMBDA built :
                [store |-> SubTreePopulation(built.heap), roots |-> built.roots,
                 collection |-> counts, pending |-> counts, selects |-> 0, last |-> NoCall],
            BuildAll(<<>>, <<>>, 1))

PopulationInitial ==
    /\ TrimUnused
    /\ ContentUnused
    /\ MemoUnused
    /\ ToolUnused
    /\ ForestUnused
    /\ FuzzUnused
    /\ GeneratorUnused
    /\ phase = "none"
    /\ ret = -1
    /\ initial = "none"
    /\ trimmed = <<>>
    /\ answers = <<>>
    /\ population \in {PopulationState(counts) : counts \in Collections}

\* the variables the population leaves alone
outsidePopulation == <<trimVars, contentVars, memoVars, toolVars, forest, fuzz, gen>>

\* a caller adds one of its trees
AddIndividual ==
    /\ \E i \in 1..Len(PopulationTrees) :
         /\ population.pending[i] > 0
         /\ \E store \in {add_individual(population.store, population.roots[i])} :
              population' = [population EXCEPT
                                !.store = store,
                                !.pending[i] = @ - 1,
                                !.last = [NoCall EXCEPT !.op = "add_individual",
                                                        !.before = population.store]]
    /\ UNCHANGED outsidePopulation

\* the keys a caller asks for
TypeNames ==
    {[name |-> "A", type |-> "RuleKey", idx |-> 0],
     [name |-> "a", type |-> "RuleKey", idx |-> 0],
     [name |-> "C", type |-> "RuleKey", idx |-> 0],
     [name |-> "A", type |-> "AlternativeKey", idx |-> 0],
     [name |-> "B", type |-> "QuantifiedKey", idx |-> 0],
     [name |-> "E", type |-> "RuleKey", idx |-> 0]}

\* a caller selects from the store
SelectByType ==
    /\ population.selects < MaxSelects
    /\ population.store.nodes_ # <<>>
    /\ \E type_name \in TypeNames, max_depth \in {0, 1, 2, 4}, max_tokens \in {0, 1} :
         \E out \in select_by_type(population.store, type_name, max_depth, max_tokens) :
            population' = [population EXCEPT
                              !.store = out.store,
                              !.selects = @ + 1,
                              !.last = [op |-> "select_by_type", type_name |-> type_name,
                                        max_depth |-> max_depth, max_tokens |-> max_tokens,
                                        individual |-> out.individual,
                                        before |-> population.store]]
    /\ UNCHANGED outsidePopulation

\* the limits of the tool
PoolLimits == {RuleSize(3, 2), RuleSize(5, 4), RuleSizeMax}

\* the tool replaces a node of a tree of the caller from the pool
ReplaceFromPool ==
    /\ population.selects < MaxSelects
    /\ population.store.nodes_ # <<>>
    /\ \E i \in 1..Len(population.roots), limit \in PoolLimits :
         \E out \in replace_from_pool(population.store, population.roots[i], limit) :
            population' = [population EXCEPT
                              !.store = out.store,
                              !.selects = @ + 1,
                              !.last = [NoCall EXCEPT !.op = "replace_from_pool",
                                                      !.individual = out.result,
                                                      !.before = population.store]]
    /\ UNCHANGED outsidePopulation

\* the tool inserts a node from the pool under a quantifier of a tree of the
\* caller
InsertQuantifiedFromPool ==
    /\ population.selects < MaxSelects
    /\ population.store.nodes_ # <<>>
    /\ \E i \in 1..Len(population.roots), limit \in PoolLimits :
         \E out \in insert_quantified_from_pool(population.store, population.roots[i],
                                                limit) :
            population' = [population EXCEPT
                              !.store = out.store,
                              !.selects = @ + 1,
                              !.last = [NoCall EXCEPT !.op = "insert_quantified_from_pool",
                                                      !.individual = out.result,
                                                      !.before = population.store]]
    /\ UNCHANGED outsidePopulation

PopulationNext ==
    \/ AddIndividual
    \/ SelectByType
    \/ ReplaceFromPool
    \/ InsertQuantifiedFromPool

SpecPopulation == PopulationInitial /\ [][PopulationNext]_vars

\* C22: when the bucket of the key has no candidate within both bounds,
\* select_by_type returns a candidate with tokens <= max_tokens, whatever its
\* depth, and returns nothing only when the bucket has no such candidate.
C22_TokenFallback ==
    LET l == population.last
        p == population.store
    IN  (/\ l.op = "select_by_type"
         /\ l.type_name \in DOMAIN p.nodes_by_name_
         /\ \A i \in 1..Len(p.nodes_by_name_[l.type_name]) :
               LET size == p.rule_data_[p.nodes_by_name_[l.type_name][i]].size
               IN  ~(size.depth <= l.max_depth /\ size.tokens <= l.max_tokens))
        => (l.individual = Null
               <=> \A i \in 1..Len(p.nodes_by_name_[l.type_name]) :
                      p.rule_data_[p.nodes_by_name_[l.type_name][i]].size.tokens
                          > l.max_tokens)

\* the hashes each bucket holds
Buckets(p) ==
    [key \in DOMAIN p.nodes_by_name_ |->
        {p.rule_data_[p.nodes_by_name_[key][i]].hash : i \in 1..Len(p.nodes_by_name_[key])}]

RECURSIVE AddInOrder(_, _, _, _)
\* the store after the collection is added in the order of the trees
AddInOrder(p, roots, counts, i) ==
    IF i > Len(counts) THEN p
    ELSE IF counts[i] = 0 THEN AddInOrder(p, roots, counts, i + 1)
    ELSE ByValue(LAMBDA q : AddInOrder(q, roots, [counts EXCEPT ![i] = @ - 1], i),
                 add_individual(p, roots[i]))

\* C23: the buckets of the store, as the hashes they hold, are the same
\* whatever the order in which a collection of individuals was added.
C23_OrderIndependence ==
    (population.selects = 0 /\ \A i \in DOMAIN population.pending : population.pending[i] = 0)
        => Buckets(population.store)
              = Buckets(AddInOrder(SubTreePopulation(population.store.heap),
                                   population.roots, population.collection, 1))

\* the interned nodes
Interned(p) == {p.nodes_[i] : i \in 1..Len(p.nodes_)}

\* C24: select_by_type returns a tree of new nodes, a copy of a candidate of
\* the bucket, and leaves the nodes, the buckets and the data of the store as
\* they were; so do the pool mutators that put the returned tree into a tree
\* of the caller and free what they replace.
C24_StoreUntouched ==
    LET l == population.last
        p == population.store
    IN  l.op \in {"select_by_type", "replace_from_pool", "insert_quantified_from_pool"} =>
           /\ p.rule_data_ = l.before.rule_data_
           /\ p.nodes_ = l.before.nodes_
           /\ p.node_by_hash_ = l.before.node_by_hash_
           /\ p.nodes_by_name_ = l.before.nodes_by_name_
           /\ \A n \in Interned(p) : p.heap[n] = l.before.heap[n] /\ n \notin p.freed
           /\ (l.op = "select_by_type" /\ l.individual # Null) =>
                 /\ Subtree(p.heap, l.individual) \cap DOMAIN l.before.heap = {}
                 /\ \E i \in 1..Len(p.nodes_by_name_[l.type_name]) :
                       TermOf(p.heap, p.heap[l.individual].children[1])
                          = TermOf(p.heap, p.nodes_by_name_[l.type_name][i])
           /\ (l.op # "select_by_type" /\ l.individual # Null) =>
                 Subtree(p.heap, l.individual) \cap Interned(p) = {}

\* a pool mutator has put a copy of an interned node into a tree of the caller
C24_Witness ==
    /\ population.last.op = "replace_from_pool"
    /\ population.last.individual # Null
    /\ Cardinality(DOMAIN population.store.heap)
          > Cardinality(DOMAIN population.last.before.heap)
    /\ population.store.freed # population.last.before.freed

----------------------------------------------------------------------------
(* The mutators called on their own (tool/Tool.hpp): delete_quantified,
   replace_node and swap_local_nodes are public members that a caller
   invokes with an individual (and a donor). Each call is one step; created
   keeps the heap the call started from *)

\* most calls of a mutator in a run
MaxCreatorCalls == 2

\* a token of a lexer rule with sub-rules: size counts them
TokenOf(name, size) == Term(UnlexerRule(name, NameBytes[name], size, FALSE), <<>>)

\* an UnparserRule around one tree, n times
RECURSIVE Nest(_, _, _)
Nest(name, n, term) == IF n = 0 THEN term ELSE Rule(name, <<Nest(name, n - 1, term)>>)

\* the individuals and the limit of the tool, by case
CreatorScenes ==
    LET QuantifiedTokens(names) == [k \in 1..Len(names) |-> <<Token(names[k])>>]
        deep == Rule("S", <<TokenOf("c", RuleSize(1, 7)),
                            Nest("C", 4, Rule("A", <<TokenOf("b", RuleSize(1, 3))>>))>>)
    IN { [recipient |-> Rule("S", <<QuantifierOf(0, 0, 3, QuantifiedTokens(<<"a", "b", "c">>))>>),
          donor |-> DeriveA(0), limits |-> {RuleSizeMax}],
         [recipient |-> Rule("S", <<QuantifierOf(0, 1, 3, QuantifiedTokens(<<"a">>)),
                                    QuantifierOf(1, 1, 2, QuantifiedTokens(<<"a", "b">>))>>),
          donor |-> DeriveA(0), limits |-> {RuleSizeMax}],
         [recipient |-> Rule("S", <<QuantifierOf(0, 2, 3, QuantifiedTokens(<<"a", "b">>)),
                                    QuantifierOf(1, 0, 1, <<>>)>>),
          donor |-> DeriveA(0), limits |-> {RuleSizeMax}],
         [recipient |-> deep,
          donor |-> Rule("S", <<Rule("A", <<TokenOf("d", RuleSize(5, 4))>>)>>),
          limits |-> {RuleSize(10, 12), RuleSize(11, 11), RuleSize(11, 12)}],
         [recipient |-> deep,
          donor |-> Rule("S", <<Rule("A", <<TokenOf("d", RuleSize(5, 4))>>),
                                Rule("A", <<Token("a")>>)>>),
          limits |-> {RuleSize(10, 12), RuleSize(11, 11), RuleSize(11, 12)}],
         [recipient |-> Rule("S", <<DeriveA(1), Nest("C", 2, Rule("A", <<Token("a")>>))>>),
          donor |-> Rule("S", <<DeriveA(0)>>),
          limits |-> {RuleSize(3, INT_MAX), RuleSize(4, INT_MAX), RuleSize(5, INT_MAX)}],
         [recipient |-> Rule("S", <<DeriveA(0), Rule("C", <<Token("c")>>), DeriveA(1)>>),
          donor |-> DeriveA(0), limits |-> {RuleSizeMax}],
         [recipient |-> Rule("S", <<Rule("A", <<Token("a"), Rule("A", <<Token("b")>>)>>),
                                    Rule("A", <<Token("c")>>)>>),
          donor |-> DeriveA(0), limits |-> {RuleSizeMax}],
         [recipient |-> Rule("S", <<Rule("A", <<Token("a"), Rule("A", <<Token("b")>>)>>)>>),
          donor |-> DeriveA(0), limits |-> {RuleSizeMax}] }

CreatorInitial ==
    /\ TrimUnused
    /\ ContentUnused
    /\ MemoUnused
    /\ RestUnused
    /\ phase = "none"
    /\ ret = -1
    /\ initial = "none"
    /\ trimmed = <<>>
    /\ answers = <<>>
    /\ \E scene \in CreatorScenes : \E limit \in scene.limits :
       \E individual1 \in {Individual(scene.recipient, <<>>)} :
       \E individual2 \in {Individual(scene.donor, individual1.tree)} :
         tool = [tree |-> individual2.tree, freed |-> {}, root |-> individual1.root,
                 donor |-> individual2.root, limit |-> limit, calls |-> 0]
    /\ created = [creator |-> "", root |-> Null, tree |-> <<>>, freed |-> {}]

\* a call of a mutator with the individuals of the tool and what it returned
CallCreator(creator, r) ==
    /\ tool' = [tool EXCEPT !.tree = r.tree, !.freed = r.freed, !.calls = @ + 1]
    /\ created' = [creator |-> creator, root |-> r.result,
                   tree |-> tool.tree, freed |-> tool.freed]
    /\ UNCHANGED outsideTool

DeleteQuantifiedCall ==
    /\ tool.calls < MaxCreatorCalls
    /\ \E r \in delete_quantified(tool) : CallCreator("delete_quantified", r)

ReplaceNodeCall ==
    /\ tool.calls < MaxCreatorCalls
    /\ \E r \in replace_node(tool) : CallCreator("replace_node", r)

SwapLocalNodesCall ==
    /\ tool.calls < MaxCreatorCalls
    /\ \E r \in swap_local_nodes(tool) : CallCreator("swap_local_nodes", r)

CreatorNext ==
    \/ DeleteQuantifiedCall
    \/ ReplaceNodeCall
    \/ SwapLocalNodesCall

SpecCreator == CreatorInitial /\ [][CreatorNext]_vars

\* the quantifiers of the individual with more children than their start
Deletable(h, root) ==
    {q \in NodesOf(quants_by_name(h, root)) : Len(h[q].children) > h[q].start}

\* the tree is S(Q[a,b,c]) with start 0, stop 3 and one token per child
IsThreeTokens(h, root) ==
    /\ h[root].name = "S"
    /\ Len(h[root].children) = 1
    /\ LET q == h[root].children[1]
       IN /\ h[q].type = "UnparserRuleQuantifier"
          /\ h[q].start = 0
          /\ h[q].stop = 3
          /\ Len(h[q].children) = 3
          /\ \A i \in 1..3 : RootSize(h, h[q].children[i]).tokens = 1

\* C25: a successful delete_quantified removed exactly one child of one
\* quantifier that had more children than its start: the quantifier has one
\* child fewer and still at least start children, the tokens of the tree
\* dropped by the tokens of the removed child, and no other node of the tree
\* changed; the call returns null exactly when no quantifier has more
\* children than its start. From S(Q[a,b,c]) with start 0 and stop 3 the
\* result has 2 tokens and Q has 2 children
C25_DeleteQuantified ==
    created.creator = "delete_quantified" =>
      LET h == created.tree
          root == tool.root
      IN IF created.root = Null
         THEN /\ Deletable(h, root) = {}
              /\ tool.tree = h
              /\ tool.freed = created.freed
         ELSE /\ created.root = root
              /\ \E q \in Deletable(h, root) : \E i \in 1..Len(h[q].children) :
                   LET removed == h[q].children[i]
                   IN /\ tool.tree[q].children =
                           SubSeq(h[q].children, 1, i - 1)
                             \o SubSeq(h[q].children, i + 1, Len(h[q].children))
                      /\ Len(tool.tree[q].children) = Len(h[q].children) - 1
                      /\ Len(tool.tree[q].children) >= h[q].start
                      /\ RootSize(tool.tree, root).tokens
                           = RootSize(h, root).tokens - RootSize(h, removed).tokens
                      /\ DOMAIN tool.tree = DOMAIN h
                      /\ \A n \in DOMAIN h \ {removed} :
                           tool.tree[n] = IF n = q THEN [h[n] EXCEPT !.children = tool.tree[q].children]
                                          ELSE h[n]
                      /\ tool.freed = created.freed \cup Subtree(h, removed)
                      /\ IsThreeTokens(h, root) =>
                           /\ RootSize(tool.tree, root).tokens = 2
                           /\ Len(tool.tree[q].children) = 2

\* a child was deleted from S(Q[a,b,c])
C25_Witness ==
    /\ created.creator = "delete_quantified"
    /\ created.root # Null
    /\ IsThreeTokens(created.tree, tool.root)

\* a child was deleted from a quantifier next to one that is at its start
C25_NextToStart ==
    /\ created.creator = "delete_quantified"
    /\ created.root # Null
    /\ \E q \in NodesOf(quants_by_name(created.tree, tool.root)) :
         /\ Len(created.tree[q].children) = created.tree[q].start
         /\ Len(created.tree[q].children) > 0

\* delete_quantified returned null with a quantifier that has children
C25_NothingToDelete ==
    /\ created.creator = "delete_quantified"
    /\ created.root = Null
    /\ \E q \in NodesOf(quants_by_name(created.tree, tool.root)) :
         Len(created.tree[q].children) > 0

\* the place of node n in the children of its parent
PlaceOf(h, n) == Least({i \in 1..Len(h[h[n].parent].children) : h[h[n].parent].children[i] = n})

\* the pairs of a recipient node and a donor node with a common key
ReplacePairs(h, root, donor) ==
    CommonPairs(nodes_by_name(h, root), nodes_by_name(h, donor))

\* the level of recipient p[1], the depth of donor p[2] and the tokens of
\* the recipient's tree with the donor node in the place of the recipient node
ReplaceMeasure(h, root, donor, p) ==
    [depth |-> node_info(h, root)[p[1]].level + node_info(h, donor)[p[2]].depth,
     tokens |-> RootSize(h, root).tokens - node_info(h, root)[p[1]].tokens
                  + node_info(h, donor)[p[2]].tokens,
     root_tokens |-> RootSize(h, root).tokens,
     recipient_level |-> node_info(h, root)[p[1]].level,
     recipient_tokens |-> node_info(h, root)[p[1]].tokens,
     donor_depth |-> node_info(h, donor)[p[2]].depth,
     donor_tokens |-> node_info(h, donor)[p[2]].tokens]

\* the pairs replace_node may use
ReplaceFits(h, root, donor, limit) ==
    {p \in ReplacePairs(h, root, donor) :
       \E m \in {ReplaceMeasure(h, root, donor, p)} :
         m.depth <= limit.depth /\ m.tokens < limit.tokens}

\* the pairs the tree of the tool shows to have been used: a new node with
\* the term of the donor node stands in the place of the recipient node,
\* which was freed
Replaced(h, root, donor) ==
    {p \in ReplacePairs(h, root, donor) :
       /\ p[1] \in tool.freed
       /\ \E new \in {tool.tree[h[p[1]].parent].children[PlaceOf(h, p[1])]} :
            /\ new \notin DOMAIN h
            /\ TermOf(tool.tree, new) = TermOf(h, p[2])}

\* C26: a successful replace_node put a clone of a donor node in the place
\* of a recipient node of the same key, for a pair with recipient.level +
\* donor.depth <= limit.depth and root_tokens - recipient.tokens +
\* donor.tokens < limit.tokens; the call returns null exactly when no pair
\* passes both tests. A pair with 10 - 3 + 4 tokens is never used with
\* limit.tokens 11, a pair with level 5 and depth 6 never with limit.depth 10
C26_ReplaceNode ==
    created.creator = "replace_node" =>
      LET h == created.tree
          fits == ReplaceFits(h, tool.root, tool.donor, tool.limit)
      IN IF created.root = Null
         THEN fits = {} /\ tool.tree = h /\ tool.freed = created.freed
         ELSE /\ created.root = tool.root
              /\ Replaced(h, tool.root, tool.donor) # {}
              /\ Replaced(h, tool.root, tool.donor) \subseteq fits
              /\ \A p \in Replaced(h, tool.root, tool.donor) :
                 \A m \in {ReplaceMeasure(h, tool.root, tool.donor, p)} :
                   /\ ~(m.tokens = 11 /\ tool.limit.tokens = 11)
                   /\ ~(m.depth = 11 /\ tool.limit.depth = 10)

\* the pair with 10 - 3 + 4 tokens, level 5 and depth 6 was used at the
\* limit of depth 11 and 12 tokens
C26_Witness ==
    /\ created.creator = "replace_node"
    /\ created.root # Null
    /\ tool.limit = RuleSize(11, 12)
    /\ \E p \in Replaced(created.tree, tool.root, tool.donor) :
       \E m \in {ReplaceMeasure(created.tree, tool.root, tool.donor, p)} :
         /\ m.root_tokens = 10 /\ m.recipient_tokens = 3 /\ m.donor_tokens = 4
         /\ m.recipient_level = 5 /\ m.donor_depth = 6

\* the pair with 10 - 3 + 4 tokens was passed over at limit.tokens 11 and
\* another pair was used
C26_OtherPair ==
    /\ created.creator = "replace_node"
    /\ created.root # Null
    /\ tool.limit = RuleSize(11, 11)
    /\ \E p \in ReplacePairs(created.tree, tool.root, tool.donor) :
         ReplaceMeasure(created.tree, tool.root, tool.donor, p).tokens = 11

\* the pair with level 5 and depth 6 was passed over at limit.depth 10 and
\* another pair was used
C26_OtherPairDepth ==
    /\ created.creator = "replace_node"
    /\ created.root # Null
    /\ tool.limit = RuleSize(10, 12)
    /\ \E p \in ReplacePairs(created.tree, tool.root, tool.donor) :
         ReplaceMeasure(created.tree, tool.root, tool.donor, p).depth = 11

\* no pair passed and replace_node returned null
C26_NoPair ==
    /\ created.creator = "replace_node"
    /\ created.root = Null
    /\ tool.limit \in {RuleSize(10, 12), RuleSize(11, 11)}
    /\ ReplacePairs(created.tree, tool.root, tool.donor) # {}

\* the pairs of same-key nodes whose exchange turns heap h into the tree of
\* the tool
Swapped(h, root) ==
    {p \in PairsOf(nodes_by_name(h, root)) : tool.tree = SwapNodes(h, p[1], p[2])}

\* the depth each node of the pair reaches at the place of the other
SwapDepths(h, root, p) ==
    {[first |-> info[p[1]].level + info[p[2]].depth,
      second |-> info[p[2]].level + info[p[1]].depth] : info \in {node_info(h, root)}}

\* C27: a successful swap_local_nodes exchanged two nodes a and b with
\* max(a.level + b.depth, b.level + a.depth) <= limit.depth: both nodes fit
\* the depth limit at the place of the other
C27_SwapBothFit ==
    (created.creator = "swap_local_nodes" /\ created.root # Null) =>
      \E p \in Swapped(created.tree, tool.root) :
      \E d \in SwapDepths(created.tree, tool.root, p) :
        Max(d.first, d.second) <= tool.limit.depth

\* what the test of swap_local_nodes gives: one of the two nodes fits the
\* depth limit at the place of the other
C27_SwapOneFits ==
    (created.creator = "swap_local_nodes" /\ created.root # Null) =>
      /\ Swapped(created.tree, tool.root) # {}
      /\ \A p \in Swapped(created.tree, tool.root) :
         \A d \in SwapDepths(created.tree, tool.root, p) :
           Min(d.first, d.second) <= tool.limit.depth

\* a tree within the depth limit was made deeper than the limit by a swap
C27_TooDeep ==
    /\ created.creator = "swap_local_nodes"
    /\ created.root # Null
    /\ RootSize(created.tree, tool.root).depth <= tool.limit.depth
    /\ RootSize(tool.tree, tool.root).depth > tool.limit.depth

----------------------------------------------------------------------------
(* post, next and split of the ConfigTrimmer, step by step *)

\* the trimmer as post(success) is said to leave it before it computes the
\* next candidate
ClaimedPost(t, success) ==
    IF success
    THEN [t EXCEPT !.config_ = t.next_config_,
                   !.subsets_ = <<t.next_config_>>,
                   !.config_cache_ = t.config_cache_
                       \ {c \in t.config_cache_ :
                            Cardinality(c) >= Cardinality(t.next_config_)}]
    ELSE [t EXCEPT !.config_cache_ = t.config_cache_ \cup {t.next_config_},
                   !.i_ = t.i_ + 1]

\* a step of post(success) with the candidate that trim() returned last
PostStep(success) ==
    /\ phase = "post"
    /\ phase' # "post"
    /\ answers' = Append(answers, success)

C28_Rejected ==
    /\ phase = "trim"
    /\ answers = <<FALSE>>
    /\ trimmed[1] \in trimmer.config_cache_
    /\ trimmer.i_ = 1

\* configuration C in n subsets, as split() fills them
SplitInto(C, n) ==
    SplitLoop(SetToSeq(C), Cardinality(C), n, 0, 0, [k \in 1..n |-> {}])

\* link propagation: the units reachable by links from a link key that is
\* not in the configuration leave it
Propagated(links, raw) ==
    raw \ Reach(links, UNION {links[u] : u \in DOMAIN links \ raw})

\* the candidate of cursor position i of a partition: subset i, then the
\* complement of subset i - n, after link propagation
CandidateAt(links, subs, i) ==
    Propagated(links,
               IF i < Len(subs) THEN subs[i + 1]
               ELSE UNION {subs[k] : k \in (1..Len(subs)) \ {i - Len(subs) + 1}})

\* every cursor position of the partition has a cached candidate
Exhausted(links, subs, cache) ==
    \A i \in 0..(2 * Len(subs) - 1) : CandidateAt(links, subs, i) \in cache

\* the granularities from m on for a configuration of size units: doubling,
\* capped by size
RECURSIVE Granularities(_, _)
Granularities(m, size) ==
    IF m >= size THEN {size} ELSE {m} \cup Granularities(2 * m, size)

\* a candidate is out: trim() will return it or post() is awaited
Pending == phase \in {"trim", "post"}

\* while a candidate is out it is the one of the first cursor position of
\* the current granularity that is not cached, and every coarser granularity
\* is exhausted
CandidateInOrder ==
    Pending =>
      LET n == Len(trimmer.subsets_)
          size == Cardinality(trimmer.config_)
      IN /\ size >= 2
         /\ n \in Granularities(2, size)
         /\ trimmer.i_ \in 0..(2 * n - 1)
         /\ trimmer.next_config_ = CandidateAt(trimmer.links_, trimmer.subsets_, trimmer.i_)
         /\ trimmer.next_config_ \notin trimmer.config_cache_
         /\ \A k \in 0..(trimmer.i_ - 1) :
              CandidateAt(trimmer.links_, trimmer.subsets_, k) \in trimmer.config_cache_
         /\ \A m \in Granularities(2, size) :
              m < n => Exhausted(trimmer.links_, SplitInto(trimmer.config_, m),
                                 trimmer.config_cache_)

\* post() returned 1 with the cursor exhausted at the granularity of single
\* units
DoneByExhaustion ==
    /\ Len(trimmer.subsets_) = Cardinality(trimmer.config_)
    /\ trimmer.i_ = 2 * Len(trimmer.subsets_)
    /\ Exhausted(trimmer.links_, trimmer.subsets_, trimmer.config_cache_)

\* C29 as stated: candidates come in cursor order at each granularity, the
\* next granularity min(2n, |C|) is entered only with the cursor exhausted,
\* and post() reports done only with the cursor exhausted at n = |C|
C29_DoneOnlyExhausted ==
    /\ CandidateInOrder
    /\ Committed => DoneByExhaustion

\* C29, amended: candidates come in cursor order at each granularity n >= 2
\* (subset 0 .. n-1, then the complements, after link propagation, cached
\* ones skipped), the next granularity min(2n, |C|) is entered only with
\* the cursor exhausted, and post() reports done only with the cursor
\* exhausted at n = |C| or with an accepted configuration of fewer than 2
\* units
C29_CandidateOrder ==
    /\ CandidateInOrder
    /\ Committed => \/ Cardinality(trimmer.config_) < 2
                    \/ DoneByExhaustion

\* the session ended by exhaustion at the single units of 4
C29_Witness ==
    /\ Committed
    /\ Cardinality(trimmer.config_) = 4
    /\ DoneByExhaustion

\* a complement is out at the granularity of 4 after two cached complements
\* were skipped at the granularity of 2
C29_ComplementOut ==
    /\ phase = "trim"
    /\ Len(trimmer.subsets_) = 4
    /\ trimmer.i_ >= 4
    /\ Len(answers) = 6

\* the session ended with an accepted configuration of one unit
C29_DoneAtOneUnit ==
    /\ Committed
    /\ Cardinality(trimmer.config_) = 1
    /\ answers[Len(answers)]

\* the subsets are non-empty and pairwise disjoint, their union is C and
\* their sizes differ by at most one
EvenPartition(subs, C) ==
    /\ \A k \in 1..Len(subs) : subs[k] # {}
    /\ \A j, k \in 1..Len(subs) : j # k => subs[j] \cap subs[k] = {}
    /\ UNION {subs[k] : k \in 1..Len(subs)} = C
    /\ \A j, k \in 1..Len(subs) : Cardinality(subs[j]) - Cardinality(subs[k]) <= 1

\* a step that ran split(): init() and post(true) start from one subset,
\* post(false) from the subsets it finds
SplitStep(n_old) ==
    /\ trimmer'.subsets_ # trimmer.subsets_
    /\ Len(trimmer'.subsets_) >= 2
    /\ n_old = IF phase = "new" \/ trimmer'.config_ # trimmer.config_ THEN 1
               ELSE Len(trimmer.subsets_)

\* C30: after every split the subsets are a partition of the current
\* configuration C into n = min(2 * n_old, |C|) pairwise disjoint, non-empty
\* subsets whose union is C and whose sizes differ by at most one (a call
\* that splits more than once ends at a later step of the doubling)
C30_SplitPartition ==
    [][\A n_old \in 1..MaxUnits :
         SplitStep(n_old) =>
           /\ EvenPartition(trimmer'.subsets_, trimmer'.config_)
           /\ Len(trimmer'.subsets_)
                \in Granularities(Min(2 * n_old, Cardinality(trimmer'.config_)),
                                  Cardinality(trimmer'.config_))
           /\ trimmer'.subsets_ = SplitInto(trimmer'.config_, Len(trimmer'.subsets_))
      ]_vars

\* the subsets are those of the last split
C30_SubsetsEven ==
    Len(trimmer.subsets_) >= 2 => EvenPartition(trimmer.subsets_, trimmer.config_)

\* an accepted configuration of 3 units in 2 subsets: sizes 2 and 1
C30_Witness ==
    /\ Pending
    /\ TRUE \in Range(answers)
    /\ Cardinality(trimmer.config_) = 3
    /\ Len(trimmer.subsets_) = 2
    /\ Cardinality(trimmer.subsets_[1]) = 2
    /\ Cardinality(trimmer.subsets_[2]) = 1

\* 3 units in min(4, 3) = 3 subsets
C30_Capped ==
    /\ Pending
    /\ Cardinality(trimmer.config_) = 3
    /\ Len(trimmer.subsets_) = 3

----------------------------------------------------------------------------
(* Termination of a trimming session: the caller of a ConfigTrimmer or of a
   ContentTrimmer goes on with trim() and post() until post() returns 1
   (grafl.cpp: afl_custom_trim, afl_custom_post_trim), so a session that can
   take a step takes it *)

\* a session of either trimmer
SessionInitial == TrimInitial \/ ContentInitial

SessionNext ==
    \/ (world = "unused" /\ TrimNext)
    \/ (world # "unused" /\ ContentSessionNext)

SpecSession == SessionInitial /\ [][SessionNext]_vars /\ WF_vars(SessionNext)

\* 2^n
RECURSIVE Pow2(_)
Pow2(n) == IF n = 0 THEN 1 ELSE 2 * Pow2(n - 1)

\* C31: a trimming session ends for every sequence of answers of the
\* oracle: init() returns 0 or post() returns 1 after at most as many
\* trim/post rounds as the initial configuration has subsets, for the
\* ConfigTrimmer and for the ContentTrimmer
C31_SessionEnds ==
    /\ [](Len(trimmed) <= Pow2(Cardinality(initial.config)))
    /\ <>(phase = "done")

\* a session of 4 units ended after 10 rejected candidates
C31_Witness ==
    /\ phase = "done"
    /\ Cardinality(initial.config) = 4
    /\ Len(answers) = 10
    /\ ret = 1

\* a ContentTrimmer session ended by post() after two or more rounds
C31_ContentEnded ==
    /\ phase = "done"
    /\ world # "unused"
    /\ ret = 1
    /\ Len(answers) >= 2

----------------------------------------------------------------------------
(* The store of SubTreePopulation as add_individual leaves it. *)

\* the store holds one node for each hash: nodes_ and node_by_hash_ list the
\* same nodes once, each under the hash of its content, the children of a
\* stored node are stored and no stored node is freed
Canonical(p) ==
    /\ \A i, j \in 1..Len(p.nodes_) :
          p.rule_data_[p.nodes_[i]].hash = p.rule_data_[p.nodes_[j]].hash => i = j
    /\ Len(p.node_by_hash_) = Len(p.nodes_)
    /\ \A i \in 1..Len(p.node_by_hash_) :
          /\ p.node_by_hash_[i].node \in Interned(p)
          /\ p.node_by_hash_[i].hash = p.rule_data_[p.node_by_hash_[i].node].hash
    /\ DOMAIN p.rule_data_ = Interned(p)
    /\ \A n \in Interned(p) :
          /\ n \notin p.freed
          /\ p.rule_data_[n].hash = collect_hashes(p.heap, n)
          /\ p.rule_data_[n].refcount >= 1
          /\ \A k \in 1..Len(p.heap[n].children) : p.heap[n].children[k] \in Interned(p)

\* what add_individual(root) does to the store p, giving q: a root whose hash
\* is interned adds no node and raises the refcount of the interned node (and
\* of the nodes under it) by one; a root whose hash is new is stored, first of
\* the new nodes, with refcount 1, and no refcount of the store goes down
Added(p, q, root) ==
    LET hash == collect_hashes(p.heap, root)
        it == Find(p.node_by_hash_, hash)
    IN  /\ SubSeq(q.nodes_, 1, Len(p.nodes_)) = p.nodes_
        /\ \A n \in Interned(p) : q.rule_data_[n].refcount >= p.rule_data_[n].refcount
        /\ IF it # Null
           THEN /\ q.nodes_ = p.nodes_
                /\ q.node_by_hash_ = p.node_by_hash_
                /\ q.nodes_by_name_ = p.nodes_by_name_
                /\ \A n \in Interned(p) :
                      q.rule_data_[n].refcount
                         = p.rule_data_[n].refcount
                              + (IF n \in Subtree(p.heap, it) THEN 1 ELSE 0)
           ELSE /\ Len(q.nodes_) > Len(p.nodes_)
                /\ LET new == q.nodes_[Len(p.nodes_) + 1]
                   IN  /\ new \notin DOMAIN p.heap
                       /\ q.rule_data_[new].hash = hash
                       /\ q.rule_data_[new].refcount = 1
                       /\ Find(q.node_by_hash_, hash) = new

\* one step of a caller that adds the tree i
AddStep ==
    \A i \in 1..Len(PopulationTrees) :
        population'.pending[i] < population.pending[i]
            => Added(population.store, population'.store, population.roots[i])

\* C32: after any sequence of add_individual calls the store holds one
\* canonical node for each content hash, the children of a stored node are
\* stored canonical nodes and every stored node has a refcount of 1 or more;
\* adding a tree whose hash is interned stores no node and raises the refcount
\* of the interned node by one, and a tree with a new hash is stored with
\* refcount 1.
C32_Interning == [](Canonical(population.store)) /\ [][AddStep]_vars

\* a tree was added twice: its root is stored once with refcount 2, and a
\* tree added after it shares a stored subtree
C32_Witness ==
    /\ population.last.op = "add_individual"
    /\ Len(population.store.nodes_) = Len(population.last.before.nodes_)
    /\ Len(population.store.nodes_) > 3
    /\ \E n \in Interned(population.store) : population.store.rule_data_[n].refcount = 3

\* a tree with a new root shares its subtree with the store
C32_SharedSubtree ==
    /\ population.last.op = "add_individual"
    /\ Len(population.store.nodes_) > Len(population.last.before.nodes_)
    /\ Len(population.last.before.nodes_) > 0
    /\ \E n \in Interned(population.last.before) :
          population.store.rule_data_[n].refcount
             > population.last.before.rule_data_[n].refcount

----------------------------------------------------------------------------
(* The places of the two nodes after swap_local_nodes. *)

\* the child slot of a node: its parent and its index among the children
SlotOf(h, n) ==
    [parent |-> h[n].parent,
     index |-> Least({i \in 1..Len(h[h[n].parent].children) : h[h[n].parent].children[i] = n})]

\* from the tree h to the tree g, a and b have exchanged their slots and no
\* other node has moved
Exchanged(h, g, a, b) ==
    LET sa == SlotOf(h, a)
        sb == SlotOf(h, b)
    IN  /\ DOMAIN g = DOMAIN h
        /\ g[a].parent = sb.parent
        /\ g[b].parent = sa.parent
        /\ g[sb.parent].children[sb.index] = a
        /\ g[sa.parent].children[sa.index] = b
        /\ \A n \in DOMAIN h :
              /\ n \notin {a, b} => g[n].parent = h[n].parent
              /\ Len(g[n].children) = Len(h[n].children)
              /\ \A k \in 1..Len(h[n].children) :
                    (<<n, k>> \notin {<<sa.parent, sa.index>>, <<sb.parent, sb.index>>})
                        => g[n].children[k] = h[n].children[k]

\* the pairs swap_local_nodes may have taken that have exchanged their slots
ExchangedPairs ==
    {p \in PairsOf(nodes_by_name(created.tree, tool.root)) :
        Exchanged(created.tree, tool.tree, p[1], p[2])}

\* C33: when swap_local_nodes succeeds on a and b, a is in the child slot
\* (parent and index) b had before the call and b in the slot a had, also
\* when a and b are children of the same parent, and no other node has moved.
C33_SwapExchanges ==
    (created.creator = "swap_local_nodes" /\ created.root # Null) => ExchangedPairs # {}

\* swap_local_nodes succeeded and left every node where it was
C33_NothingMoved ==
    /\ created.creator = "swap_local_nodes"
    /\ created.root # Null
    /\ tool.tree = created.tree

\* what holds of the code: the tree is as it was, or two nodes have
\* exchanged their slots
C33_ExchangedOrUnmoved ==
    (created.creator = "swap_local_nodes" /\ created.root # Null) =>
        (ExchangedPairs # {} \/ tool.tree = created.tree)

\* two children of one parent have exchanged their slots
C33_SiblingsExchanged ==
    /\ created.creator = "swap_local_nodes"
    /\ created.root # Null
    /\ \E p \in ExchangedPairs : created.tree[p[1]].parent = created.tree[p[2]].parent

----------------------------------------------------------------------------
(* The disjointness test of swap_local_nodes. *)

\* the pairs of same-key nodes with different tokens where one node is an
\* ancestor of the other
NestedPairs(h, root) ==
    {p \in PairsOf(nodes_by_name(h, root)) :
        /\ ~equalTokens(h, p[1], p[2])
        /\ (p[2] \in Ancestors(h, p[1]) \/ p[1] \in Ancestors(h, p[2]))}

\* C34: swap_local_nodes never swaps two nodes of which one is an ancestor
\* of the other: after a successful call no such pair has exchanged its
\* slots, and every node of the tree is still in the tree.
C34_NoNestedSwap ==
    (created.creator = "swap_local_nodes" /\ created.root # Null) =>
        /\ ExchangedPairs \cap NestedPairs(created.tree, tool.root) = {}
        /\ Subtree(tool.tree, tool.root) = Subtree(created.tree, tool.root)

\* swap_local_nodes exchanged two nodes of a tree that has a nested pair of
\* their key
C34_Witness ==
    /\ created.creator = "swap_local_nodes"
    /\ created.root # Null
    /\ NestedPairs(created.tree, tool.root) # {}
    /\ ExchangedPairs # {}

\* the only pairs of the tree are nested and swap_local_nodes returned null
C34_OnlyNested ==
    /\ created.creator = "swap_local_nodes"
    /\ created.root = Null
    /\ NestedPairs(created.tree, tool.root) # {}
    /\ tool.tree = created.tree

----------------------------------------------------------------------------
(* mutate on a root with and without children. *)

\* the step is a call of mutate: a call from idle that is not the entry of
\* create_tree with the recombiners
MutateCalled ==
    /\ tool.pc = "idle"
    /\ tool'.calls = tool.calls + 1
    /\ tool'.creators # tool.recombiners

\* what mutate does in one step: on a root without children no mutator is
\* called, the <ROOT> node gets a tree of new nodes that the generator
\* derives for the name of the old root, the old root is freed and the new
\* root is returned; on a root with children the loop of create_tree starts
\* with all registered mutators and the tree as it is
MutateStep ==
    MutateCalled =>
        IF Len(tool.tree[tool.root].children) = 0
        THEN LET top == tool.tree[tool.root].parent
                 new == tool'.returned
             IN  /\ tool'.pc = "idle"
                 /\ tool'.invoked = 0
                 /\ created' = created
                 /\ new \notin DOMAIN tool.tree
                 /\ tool'.root = new
                 /\ tool'.tree[top].children = <<new>>
                 /\ tool'.tree[new].parent = top
                 /\ tool'.tree[new].name = tool.tree[tool.root].name
                 /\ TermOf(tool'.tree, new) \in Derivations[tool.tree[tool.root].name]
                 /\ tool'.freed = tool.freed \cup {tool.root}
                 /\ \A n \in (DOMAIN tool.tree) \ {tool.root, top} :
                       tool'.tree[n] = tool.tree[n]
        ELSE /\ tool'.pc = "create"
             /\ tool'.creators = tool.mutators
             /\ tool'.invoked = 0
             /\ tool'.tree = tool.tree
             /\ tool'.freed = tool.freed
             /\ created' = created

\* C35: mutate on an individual whose root has no children calls no mutator:
\* it puts a newly generated tree of the rule of the root in the place of the
\* root, frees the old root and returns the new root of the individual; on a
\* root with children it runs create_tree on a copy of the registered
\* mutators, which stay registered.
C35_Mutate == [][MutateStep /\ tool'.mutators = tool.mutators]_vars

\* mutate has regenerated a root without children
C35_Witness ==
    /\ tool.pc = "idle"
    /\ tool.calls = 1
    /\ tool.invoked = 0
    /\ tool.returned = tool.root
    /\ tool.root \notin DOMAIN tool.entry
    /\ Len(tool.tree[tool.root].children) > 0
    /\ tool.freed # {}

\* a mutator of the copy gave nullptr and was erased from the copy only
C35_CopyErased ==
    /\ tool.pc = "create"
    /\ tool.creators \in (SUBSET tool.mutators) \ {tool.mutators}
    /\ tool.mutators = Mutators

----------------------------------------------------------------------------
(* The memo and its order list. *)

\* the keys of the inputs inserted by the calls so far, oldest first
InsertedKeys ==
    LET inserted == InsertedBefore(Len(calls) + 1)
    IN  [i \in 1..Len(inserted) |-> MemoKey(memo.flavour, inserted[i])]

\* C36: at every point the memo holds at most memo_size entries, the memo
\* and memo_order hold the same entries, each once, and memo_order has them
\* from the oldest to the newest insertion, so that the entry evicted on
\* overflow, the front of memo_order, is the oldest entry of the memo.
C36_MemoAndOrder ==
    /\ Cardinality(memo.memo) <= memo.memo_size
    /\ Len(memo.memo_order) = Cardinality(memo.memo)
    /\ Range(memo.memo_order) = memo.memo
    /\ memo.memo_size >= 1 => memo.memo_order = LastN(InsertedKeys, memo.memo_size)

\* the memo is full and its two oldest entries were evicted one after the other
C36_Witness ==
    /\ memo.memo_size = 2
    /\ Len(InsertedKeys) = 4
    /\ Cardinality(memo.memo) = 2
    /\ memo.memo_order = SubSeq(InsertedKeys, 3, 4)

----------------------------------------------------------------------------
(* 1-minimality of the configuration post() ends with. *)

\* the candidates the oracle rejected in the session
Rejected == {trimmed[k] : k \in {j \in 1..Len(answers) : ~answers[j]}}

\* C37: when post() returns 1 with a configuration C of two or more units,
\* then for every unit u of C the candidate made of C without u, after link
\* propagation, was rejected earlier in the session.
C37_OneMinimal ==
    (Committed /\ Cardinality(trimmer.config_) >= 2) =>
        \A u \in trimmer.config_ :
            Propagated(trimmer.links_, trimmer.config_ \ {u}) \in Rejected

\* post() returned 1 with an accepted configuration of two units where the
\* removal of one unit takes a linked unit with it
C37_Witness ==
    /\ Committed
    /\ Cardinality(trimmer.config_) = 2
    /\ trimmer.config_ # initial.config
    /\ \E u \in trimmer.config_ :
          Propagated(trimmer.links_, trimmer.config_ \ {u}) # trimmer.config_ \ {u}

\* post() returned 1 with the initial configuration of four units
C37_NothingDropped ==
    /\ Committed
    /\ trimmer.config_ = initial.config
    /\ Cardinality(trimmer.config_) = 4

----------------------------------------------------------------------------
(* What a creator that returns nullptr leaves behind. *)

\* the indices the annotations of an individual hold once they are built
IndicesOf(h, root) ==
    [nodes_by_name |-> nodes_by_name(h, root), rules_by_name |-> rules_by_name(h, root),
     quants_by_name |-> quants_by_name(h, root), node_info |-> node_info(h, root)]

\* the step is the call of a creator in the loop of create_tree that gave
\* nullptr
CreatorGaveNull == tool'.invoked = tool.invoked + 1 /\ created'.root = Null

\* after the step the trees of both individuals, the freed nodes and the
\* indices of the annotations are what they were before it
NullFrame ==
    CreatorGaveNull =>
        /\ tool'.tree = tool.tree
        /\ tool'.freed = tool.freed
        /\ tool'.root = tool.root
        /\ tool'.donor = tool.donor
        /\ IndicesOf(tool'.tree, tool'.root) = IndicesOf(tool.tree, tool.root)
        /\ IndicesOf(tool'.tree, tool'.donor) = IndicesOf(tool.tree, tool.donor)

----------------------------------------------------------------------------
(* The tree of the queue entry across afl_custom_fuzz. *)

\* a call of afl_custom_fuzz with a current tree leaves current_tree and
\* every node of its tree as they were, and the tree it mutated has no node
\* of the tree of the queue entry
FuzzKeepsCurrent ==
    (fuzz.flavour = "afl" /\ fuzz'.calls = fuzz.calls + 1 /\ fuzz.current_tree # Null) =>
        /\ fuzz'.current_tree = fuzz.current_tree
        /\ \A n \in Subtree(fuzz.tree, fuzz.current_tree) : fuzz'.tree[n] = fuzz.tree[n]
        /\ TermOf(fuzz'.tree, fuzz'.current_tree) = TermOf(fuzz.tree, fuzz.current_tree)
        /\ fuzz'.mutated_tree # Null
        /\ Subtree(fuzz'.tree, fuzz'.mutated_tree)
              \cap Subtree(fuzz.tree, fuzz.current_tree) = {}

\* C39: afl_custom_fuzz mutates a clone and leaves the tree of the current
\* queue entry (current_tree) unchanged, whether the result is returned or
\* rejected, so that every call for the queue entry starts from the same
\* tree.
C39_CurrentTreeKept == [][FuzzKeepsCurrent]_vars

\* the second call for the queue entry returned a test that differs from the
\* tree of the queue entry
C39_Witness ==
    /\ fuzz.flavour = "afl"
    /\ fuzz.calls = 2
    /\ fuzz.current_tree # Null
    /\ fuzz.ret > 0
    /\ TermOf(fuzz.tree, fuzz.mutated_tree) # TermOf(fuzz.tree, fuzz.current_tree)

\* the second call for the queue entry mutated the tree and gave 0
C39_Rejected ==
    /\ fuzz.flavour = "afl"
    /\ fuzz.calls = 2
    /\ fuzz.current_tree # Null
    /\ fuzz.ret = 0
    /\ TermOf(fuzz.tree, fuzz.mutated_tree) # TermOf(fuzz.tree, fuzz.current_tree)

----------------------------------------------------------------------------
(* The donor across replace_node and insert_quantified. *)

\* the nodes of an individual: its <ROOT> node and the tree under it
IndividualNodes(h, root) == Subtree(h, h[root].parent)

\* the step is a call of a recombiner that gave a tree
Recombined ==
    /\ tool'.invoked = tool.invoked + 1
    /\ created'.creator \in Recombiners
    /\ created'.root # Null

\* the roots of the subtrees of new nodes in the recipient after the step
Inserted ==
    {n \in IndividualNodes(tool'.tree, tool'.root) \ DOMAIN tool.tree :
        tool'.tree[n].parent \in DOMAIN tool.tree}

\* after the step the recipient has one subtree of new nodes, a copy of the
\* subtree of a node of the donor; the nodes of the donor are as they were,
\* none of them is freed and none of them is in the recipient
DonorKept ==
    Recombined =>
        /\ tool'.donor = tool.donor
        /\ \A n \in IndividualNodes(tool.tree, tool.donor) :
              tool'.tree[n] = tool.tree[n] /\ n \notin tool'.freed
        /\ IndividualNodes(tool'.tree, tool'.root)
              \cap IndividualNodes(tool'.tree, tool'.donor) = {}
        /\ Cardinality(Inserted) = 1
        /\ \A new \in Inserted :
              \E d \in Subtree(tool.tree, tool.donor) :
                 TermOf(tool'.tree, new) = TermOf(tool.tree, d)

\* C40: replace_node and insert_quantified put a clone of the chosen donor
\* node into the recipient and leave the tree of the donor individual
\* unchanged, so no node is shared between the recipient and the donor tree
\* after the call.
C40_DonorKept == [][DonorKept]_vars

\* insert_quantified has put a copy of a quantified node of the donor into
\* the recipient
C40_Witness ==
    /\ created.creator = "insert_quantified"
    /\ created.root # Null
    /\ created.after.tokens > created.before.tokens
    /\ IndividualNodes(tool.tree, tool.donor) \subseteq DOMAIN tool.entry
    /\ \A n \in IndividualNodes(tool.tree, tool.donor) : tool.tree[n] = tool.entry[n]

\* replace_node has put a copy of a node of the donor in the place of a node
\* of the recipient
C40_Replaced ==
    /\ created.creator = "replace_node"
    /\ created.root # Null
    /\ tool.freed # {}
    /\ \A n \in IndividualNodes(tool.tree, tool.donor) : tool.tree[n] = tool.entry[n]

====
